---- MODULE Spec2Model ----
(***************************************************************************)
(* The Taker side of the coinswap protocol (src/src/taker_protocol.rs and   *)
(* src/src/util.rs) as a state machine.  One round of Taker::send_coinswap  *)
(* is modelled: init_first_hop, the build-phase hops                        *)
(* (send_sigs_init_next_hop and watch_for_txs), request_sigs_for_incoming_  *)
(* swap, settle_all_swaps and save_and_reset_swap_round.  The async         *)
(* functions are cut at their suspension points (connect, every send and    *)
(* read on a socket, every sleep), where the Makers, the network, the chain *)
(* and the per-attempt timeouts of the select! envelopes act.               *)
(***************************************************************************)
EXTENDS Integers, Sequences, FiniteSets, TLC

\* ------------------------------------------------------------------ bounds
\* Largest maker_count, tx_count of SwapParams the model draws.
MaxMakerCount == 3
MaxTxCount == 2
\* Number of offers the directory sync hands to Taker::init.
NumOffers == 5
\* Model values of TakerConfig.first_connect_attempts and
\* TakerConfig.reconnect_attempts (5 and 3200 in TakerConfig::default()).
first_connect_attempts == 1
reconnect_attempts == 2
\* config.short_long_sleep_delay_transition (60 by default): up to this many
\* attempts the short delay is slept, after it the long one.
short_long_sleep_delay_transition == 1
\* The chain client never reports more confirmations than this.
MaxConfs == 2
\* At most this many contract transactions get broadcast during a round.
MaxBroadcastContracts == 1
\* The non-zero SwapParams.send_amount and SwapParams.fee_rate of the round.
SendAmount == 1000
FeeRate == 10

\* ------------------------------------------------------- program constants
REFUND_LOCKTIME == 48
REFUND_LOCKTIME_STEP == 48
\* The delays between attempts, in seconds.
FIRST_CONNECT_SLEEP_DELAY_SEC == 1
RECONNECT_SHORT_SLEEP_DELAY_SEC == 10
RECONNECT_LONG_SLEEP_DELAY_SEC == 60
\* contracts::MAKER_FUNDING_TX_VBYTE_SIZE, used at util.rs:340.
MAKER_FUNDING_TX_VBYTE_SIZE == 372

\* u16 arithmetic of the locktimes (wrapping, as in a release build).
U16(x) == x % 65536

\* --------------------------------------------------------------- offerbook
OfferIds == 1..NumOffers

\* The advertised offer of Maker m (OfferAndAddress).  Offer 2 advertises a
\* range that ends exactly at SendAmount, offer 5 one that starts exactly at
\* SendAmount and the offers after it ranges that start above SendAmount, so
\* none of them matches it.
Offer(m) ==
    [ address |-> m,
      min_size |-> IF m < 5 THEN 1 ELSE SendAmount + (m - 5),
      max_size |-> IF m = 2 THEN SendAmount
                   ELSE IF m < 5 THEN SendAmount + 1 ELSE SendAmount + (m - 4),
      required_confirms |-> 1 + (m % 2),
      absolute_fee_sat |-> 2,
      amount_relative_fee_ppb |-> 1000000,
      time_relative_fee_ppb |-> 0 ]

\* get_all_untried taking the difference with bad_makers alone.
get_all_not_bad(ob) == ob.all_makers \ ob.bad_makers

\* OfferBook::get_all_untried
get_all_untried(ob) == ob.all_makers \ (ob.bad_makers \cup ob.good_makers)

\* add_bad_maker that inserts nothing.
add_bad_maker_forgotten(ob, m) == ob

\* OfferBook::add_good_maker / add_bad_maker
add_good_maker(ob, m) == [ob EXCEPT !.good_makers = @ \cup {m}]
add_bad_maker(ob, m) == [ob EXCEPT !.bad_makers = @ \cup {m}]

\* The candidates with the bounds of the range included.
MatchingUntriedInclusive(ob, send_amount) ==
    { m \in get_all_untried(ob) :
        send_amount >= Offer(m).min_size /\ send_amount <= Offer(m).max_size }

\* The candidates Taker::choose_next_maker can return: the untried offers
\* with min_size < send_amount < max_size.
MatchingUntried(ob, send_amount) ==
    { m \in get_all_untried(ob) :
        send_amount > Offer(m).min_size /\ send_amount < Offer(m).max_size }

Min(S) == CHOOSE x \in S : \A y \in S : x <= y

\* Taker::choose_next_maker: 0 stands for the Err results, otherwise the
\* first matching untried offer in the order of the BTreeSet.
choose_next_maker(ob, send_amount) ==
    IF send_amount = 0 THEN 0
    ELSE IF MatchingUntried(ob, send_amount) = {} THEN 0
    ELSE Min(MatchingUntried(ob, send_amount))

\* choose_next_maker without its check of send_amount: every Err is the one
\* of the empty find.
choose_next_maker_err_unchecked(ob, send_amount) == "Protocol: Could not find suitable maker"

\* The Err of Taker::choose_next_maker when it returns none of the offers.
choose_next_maker_err(ob, send_amount) ==
    IF send_amount = 0 THEN "Protocol: Coinswap send amount not set!!"
    ELSE "Protocol: Could not find suitable maker"

\* ----------------------------------------------------------------- hashing
Preimages == {1, 2}
\* Hash160 of a preimage: an injective stand-in, distinct from every preimage.
Hash160(p) == 100 + p

\* ------------------------------------------------------------------- state
VARIABLES
    ongoing_swap_state, \* Taker.ongoing_swap_state (OngoingSwapState)
    offerbook,          \* Taker.offerbook (OfferBook)
    wallet,             \* the Wallet, as far as the Taker writes it
    chain,              \* the chain client's view: funding txs, contract txs
    pc,                 \* [f |-> the async fn running, s |-> its suspension point]
    loc,                \* the local variables of the running functions
    sent,               \* the message last written to a socket and not answered yet
    hist,               \* history: what the round has done so far
    result              \* what send_coinswap returned (or that it panicked)

vars == <<ongoing_swap_state, offerbook, wallet, chain, pc, loc, sent, hist, result>>

\* SwapParams::default() and OngoingSwapState::default()
DefaultSwapParams ==
    [send_amount |-> 0, maker_count |-> 0, tx_count |-> 0,
     required_confirms |-> 0, fee_rate |-> 0]

DefaultSwapState ==
    [ swap_params |-> DefaultSwapParams,
      outgoing_swapcoins |-> <<>>,
      watchonly_swapcoins |-> <<>>,
      incoming_swapcoins |-> <<>>,
      peer_infos |-> <<>>,
      funding_txs |-> <<>>,
      active_preimage |-> 0,
      taker_position |-> "FirstPeer" ]

\* A multisig private key as handed over: the funding edge it belongs to
\* (edge e is the funding between route position e-1 and e, edge 0 the
\* Taker's own), who revealed it and whether it matches the pubkey of the
\* multisig.  by = 0 is the Taker.
NoKey == [edge |-> -1, by |-> 0, ok |-> FALSE]
Key(e, m, good) == [edge |-> e, by |-> m, ok |-> good]

\* The tx_count swapcoins of one funding edge (one Vec<..SwapCoin>): the
\* edge, the receiving peer the multisigs pay (0: the Taker), their number,
\* the summed funding amount, the hash value and locktime of the contract
\* redeemscripts, whether others_contract_sig is set, other_privkey, and
\* hash_preimage (0: None).
SwapCoins(e, m, n, amt, hv, lt) ==
    [edge |-> e, to |-> m, n |-> n, amount |-> amt, hashvalue |-> hv,
     locktime |-> lt, sig |-> FALSE, privkey |-> NoKey, hash_preimage |-> 0]
NoSwapCoins == SwapCoins(-1, 0, 0, 0, 0, 0)

\* NextPeerInfo. multisig_pubkeys names whose keys the entry holds: a Maker's
\* (derived from its offer's tweakable point) or 0 for the Taker's own freshly
\* generated keys at the last hop, where `peer` still holds this Maker's offer.
PeerInfo(m, keys, n, hv, lt) ==
    [peer |-> m, multisig_pubkeys |-> keys, n |-> n,
     contract_reedemscripts |-> [hashvalue |-> hv, locktime |-> lt]]

\* send_coinswap without its peer_infos.push(next_swap_info).
next_swap_info_not_pushed(st, info) == st.peer_infos

\* send_coinswap: self.ongoing_swap_state.peer_infos.push(next_swap_info).
push_next_swap_info(st, info) == Append(st.peer_infos, info)

\* A ReqContractSigsAsRecvrAndSender: the numbers of receivers_contract_txs
\* and of senders_contract_txs_info, the summed funding_amount of the latter
\* and the funding edge whose outpoints the receivers contracts spend.
NoMsg == [n_recv |-> 0, n_send |-> 0, next_amount |-> 0, recv_edge |-> -1]

\* The FundingTxInfos of one funding edge: the edge, their number, the summed
\* value of the funding outputs and the contract redeemscripts.
NoFundingInfo ==
    [edge |-> -1, n |-> 0, amount |-> 0,
     contract_redeemscript |-> [hashvalue |-> 0, locktime |-> 0]]

LocInit ==
    [ maker |-> 0,                  \* init_first_hop: maker
      funding_txs |-> 0,            \* init_first_hop: funding_txs (their number)
      outgoing_swapcoins |-> NoSwapCoins,  \* init_first_hop: outgoing_swapcoins
      swap_locktime |-> 0,          \* init_first_hop: swap_locktime
      maker_index |-> 0,            \* send_coinswap: maker_index
      maker_refund_locktime |-> 0,  \* send_coinswap: maker_refund_locktime
      funding_tx_infos |-> NoFundingInfo,  \* send_coinswap: funding_tx_infos
      hop_ii |-> 0,                 \* send_sigs_init_next_hop: ii
      next_maker |-> 0,             \* send_sigs_init_next_hop_once: next_maker
      contract_sigs |-> NoMsg,      \* ... contract_sigs_as_recvr_sender
      watchonly_swapcoins |-> NoSwapCoins, \* ... watchonly_swapcoins
      senders_sigs |-> 0,           \* ... senders_sigs (their number)
      receivers_sigs |-> 0,         \* ... receivers_sigs (their number)
      rss_ii |-> 0,                 \* req_sigs_for_sender: ii
      rss_ctx |-> "none",           \* the caller of req_sigs_for_sender
      rsr_ii |-> 0,                 \* req_sigs_for_recvr: ii
      rsr_ctx |-> "none",           \* the caller of req_sigs_for_recvr
      watch_ctx |-> "none",         \* the caller of watch_for_txs
      txid_tx_map |-> {},           \* watch_for_txs: txid_tx_map (its keys)
      index |-> 0,                  \* settle_all_swaps: index
      settle_ii |-> 0,              \* settle_all_swaps: ii
      outgoing_privkeys |-> NoKey,  \* settle_all_swaps: outgoing_privkeys
      handover |-> NoKey,           \* ... maker_private_key_handover
      privkeys_reply |-> NoKey,     \* settle_one_coinswap: privkeys_reply
      sleep |-> 0,                  \* the Duration of the sleep between attempts
      attempt_err |-> "none" ]      \* the Err(e) of the attempt slept after

\* No reply to ProofOfFunding has been read in the running attempt.
NoReply == [reply |-> NoMsg, verdict |-> "none"]

\* No message is in flight.
NoMessage == [type |-> "none"]
\* No PrivKeyHandover of the last Maker was checked yet.
NoHandover == [key |-> NoKey, verdict |-> "none"]

At(f, s) == [f |-> f, s |-> s]

Init ==
    /\ ongoing_swap_state = DefaultSwapState
    /\ offerbook \in { [all_makers |-> a, good_makers |-> {}, bad_makers |-> {}] :
                        a \in {{}, OfferIds} }
    /\ wallet = [outgoing_swapcoins |-> <<>>, incoming_swapcoins |-> <<>>, saves |-> 0]
    /\ chain = [submitted |-> 0, submitted_to |-> 0,
               confs |-> [i \in 1..MaxTxCount |-> 0], contracts |-> {}]
    /\ pc = At("main", "start")
    /\ loc = LocInit
    /\ sent = NoMessage
    /\ hist = [preimage |-> 0, maker_count |-> 0, sender_sigs |-> {},
               rejected_sender_sigs |-> {}, receiver_sigs |-> {},
               proofs_of_funding |-> 0,
               pof_reply |-> NoReply,
               exchanged |-> <<>>, confirmed |-> 0,
               incoming_sigs |-> FALSE, settled |-> <<>>,
               last_peer_handover |-> NoHandover]
    /\ result = [status |-> "running", err |-> "none"]

\* ------------------------------------------------------- error propagation
\* send_coinswap returns Err(e): the `?` of its calls.
RoundErr(e) ==
    /\ pc' = At("main", "done")
    /\ loc' = LocInit
    /\ result' = [status |-> "err", err |-> e]
    /\ UNCHANGED offerbook

\* A panic (unwrap, expect, assert!, panic!) ends the task.
Panic(e) ==
    /\ pc' = At("main", "done")
    /\ loc' = LocInit
    /\ result' = [status |-> "panic", err |-> e]
    /\ UNCHANGED offerbook

\* The locals of one attempt of send_sigs_init_next_hop_once are dropped
\* when the attempt ends; what it wrote to self stays.
DropHopAttempt(l) ==
    [l EXCEPT !.next_maker = 0, !.contract_sigs = NoMsg,
              !.watchonly_swapcoins = NoSwapCoins,
              !.senders_sigs = 0, !.receivers_sigs = 0,
              !.rss_ii = 0, !.rss_ctx = "none", !.rsr_ii = 0, !.rsr_ctx = "none",
              !.sleep = 0, !.attempt_err = "none"]

\* An envelope that sleeps the short delay after every failed attempt.
reconnect_sleep_delay_always_short(ii) == RECONNECT_SHORT_SLEEP_DELAY_SEC

\* The Err arm of a reconnect envelope: the Duration it sleeps after the
\* attempt ii failed.
reconnect_sleep_delay(ii) ==
    IF ii <= short_long_sleep_delay_transition
    THEN RECONNECT_SHORT_SLEEP_DELAY_SEC
    ELSE RECONNECT_LONG_SLEEP_DELAY_SEC

\* An Err arm that returns the timed-out error whatever the attempt's error.
err_arm_timed_out(e) == "Protocol: Timed out of settle_one_coinswap attempt"

\* The Err arm of an envelope's select!, out of attempts: return Err(e).
err_arm_error(e) == e

\* send_sigs_init_next_hop, the Err arm of its select!: sleep and reattempt
\* while ii <= reconnect_attempts, else return the error.
HopFail(e) ==
    IF loc.hop_ii <= reconnect_attempts
    THEN /\ pc' = At("hop", "sleep")
         /\ loc' = [DropHopAttempt(loc) EXCEPT !.sleep = reconnect_sleep_delay(loc.hop_ii),
                                            !.attempt_err = e]
         /\ UNCHANGED <<offerbook, result>>
    ELSE RoundErr(err_arm_error(e))

\* req_sigs_for_sender returned Err to its caller.  init_first_hop marks
\* the candidate bad and goes round its loop; send_sigs_init_next_hop_once
\* marks the candidate next Maker bad and goes round its inner loop.
RssReturnErr(e) ==
    /\ UNCHANGED result
    /\ IF loc.rss_ctx = "ifh"
       THEN /\ offerbook' = add_bad_maker(offerbook, loc.maker)
            /\ pc' = At("main", "ifh_choose")
            /\ loc' = [loc EXCEPT !.maker = 0, !.funding_txs = 0,
                                  !.outgoing_swapcoins = NoSwapCoins,
                                  !.rss_ii = 0, !.rss_ctx = "none"]
       ELSE /\ offerbook' = add_bad_maker(offerbook, loc.next_maker)
            /\ pc' = At("hop", "pof_send")
            /\ loc' = [loc EXCEPT !.contract_sigs = NoMsg,
                                  !.watchonly_swapcoins = NoSwapCoins,
                                  !.rss_ii = 0, !.rss_ctx = "none"]

\* req_sigs_for_sender, the Err arm of its select!.
RssFail(e) ==
    IF loc.rss_ii <= first_connect_attempts
    THEN /\ pc' = At("rss", "sleep")
         /\ loc' = [loc EXCEPT !.sleep = FIRST_CONNECT_SLEEP_DELAY_SEC,
                               !.attempt_err = e]
         /\ UNCHANGED <<offerbook, result>>
    ELSE RssReturnErr(err_arm_error(e))

\* req_sigs_for_recvr returned Err to its caller, which passes it on with `?`.
RsrReturnErr(e) ==
    IF loc.rsr_ctx = "hop" THEN HopFail(e) ELSE RoundErr(e)

\* req_sigs_for_recvr, the Err arm of its select!.
RsrFail(e) ==
    IF loc.rsr_ii <= reconnect_attempts
    THEN /\ pc' = At("rsr", "sleep")
         /\ loc' = [loc EXCEPT !.sleep = reconnect_sleep_delay(loc.rsr_ii),
                               !.attempt_err = e]
         /\ UNCHANGED <<offerbook, result>>
    ELSE RsrReturnErr(err_arm_error(e))

\* settle_all_swaps, the Err arm of its select!.  outgoing_privkeys is a
\* local of settle_all_swaps and outlives the attempt.
SettleFailWith(l, e) ==
    IF l.settle_ii <= reconnect_attempts
    THEN /\ pc' = At("settle", "sleep")
         /\ loc' = [l EXCEPT !.privkeys_reply = NoKey, !.handover = NoKey,
                             !.sleep = reconnect_sleep_delay(l.settle_ii),
                             !.attempt_err = e]
         /\ UNCHANGED <<offerbook, result>>
    ELSE RoundErr(err_arm_error(e))

SettleFail(e) == SettleFailWith(loc, e)

\* An attempt of the function at frame f failed with e.
Fail(f, e) ==
    CASE f = "rss" -> RssFail(e)
      [] f = "rsr" -> RsrFail(e)
      [] f = "hop" -> HopFail(e)
      [] f = "settle" -> SettleFail(e)

\* ------------------------------------------------------------ peer sessions
Frames == {"rss", "rsr", "hop", "settle"}

Last(q) == q[Len(q)]

\* The Maker the session of frame f is opened to (the maker_address the
\* function connects to).
Peer(f) ==
    CASE f = "rss" -> IF loc.rss_ctx = "ifh" THEN loc.maker ELSE loc.next_maker
      [] f = "rsr" -> ongoing_swap_state.peer_infos[Len(ongoing_swap_state.peer_infos) - 1].peer
      [] f = "hop" -> Last(ongoing_swap_state.peer_infos).peer
      [] f = "settle" -> ongoing_swap_state.peer_infos[loc.index + 1].peer

\* The first suspension point of frame f after the handshake.
Body(f) ==
    CASE f = "rss" -> "send"
      [] f = "rsr" -> "send"
      [] f = "hop" -> "pof_send"
      [] f = "settle" -> "hp_send"

\* What read_message can make of the next line on the socket, other than
\* the message the caller expects: EOF, a line that is no JSON message, a
\* message with another tag.
ReadErrors(expected) ==
    { "Network: EOF", "Protocol: json parsing error",
      "Protocol: expected method " \o expected }

\* TcpStream::connect at the start of every attempt.
connect(f) ==
    /\ pc = At(f, "connect")
    /\ \/ /\ pc' = At(f, "hello")
          /\ UNCHANGED <<loc, offerbook, result>>
       \/ Fail(f, "Network: connect")
    /\ sent' = NoMessage
    /\ hist' = IF f = "hop" THEN [hist EXCEPT !.proofs_of_funding = 0] ELSE hist
    /\ UNCHANGED <<ongoing_swap_state, wallet, chain>>

\* A TakerHello that announces protocol version 1 as its maximum.
TakerHelloVersionOne(m) ==
    [type |-> "TakerHello", to |-> m,
     protocol_version_min |-> 0, protocol_version_max |-> 1]

\* handshake_maker: the TakerHello it sends to the Maker m.
TakerHello(m) ==
    [type |-> "TakerHello", to |-> m,
     protocol_version_min |-> 0, protocol_version_max |-> 0]

\* handshake_maker: send TakerHello ...
handshake_maker_send(f) ==
    /\ pc = At(f, "hello")
    /\ \/ /\ sent' = TakerHello(Peer(f))
          /\ pc' = At(f, "hello_rd")
          /\ UNCHANGED <<loc, offerbook, result>>
       \/ /\ Fail(f, "Network: write")
          /\ UNCHANGED sent
    /\ UNCHANGED <<ongoing_swap_state, wallet, chain, hist>>

\* ... and read the MakerHello.
handshake_maker_read(f) ==
    /\ pc = At(f, "hello_rd")
    /\ \/ /\ pc' = At(f, Body(f))
          /\ UNCHANGED <<loc, offerbook, result>>
       \/ \E e \in ReadErrors("makerhello") : Fail(f, e)
    /\ sent' = NoMessage
    /\ UNCHANGED <<ongoing_swap_state, wallet, chain, hist>>

\* The sleep between two attempts of an envelope is over: loop, ii += 1.
StartAttempt(f, l) ==
    CASE f = "rss" -> [l EXCEPT !.rss_ii = @ + 1]
      [] f = "rsr" -> [l EXCEPT !.rsr_ii = @ + 1]
      [] f = "hop" -> [l EXCEPT !.hop_ii = @ + 1]
      [] f = "settle" -> [l EXCEPT !.settle_ii = @ + 1]

sleep_done(f) ==
    /\ pc = At(f, "sleep")
    /\ pc' = At(f, "connect")
    /\ loc' = [StartAttempt(f, loc) EXCEPT !.sleep = 0, !.attempt_err = "none"]
    /\ hist' = IF f = "hop"
               THEN [hist EXCEPT !.pof_reply = NoReply, !.receiver_sigs = {}]
               ELSE hist
    /\ UNCHANGED <<ongoing_swap_state, offerbook, wallet, chain, sent, result>>

\* ------------------------------------------------------------ send_coinswap
\* (variant: the hash of the default, all-zero preimage)
get_preimage_hash_of_default(st) == Hash160(0)

\* Taker::get_preimage_hash
get_preimage_hash(st) == Hash160(st.active_preimage)

\* init_first_hop: swap_locktime
swap_locktime(maker_count) ==
    U16(REFUND_LOCKTIME + U16(REFUND_LOCKTIME_STEP * maker_count))

\* (variant: the hop's own step is not taken off)
maker_refund_locktime_not_stepped(maker_count, maker_index) ==
    U16(REFUND_LOCKTIME + U16(REFUND_LOCKTIME_STEP * U16(maker_count - maker_index)))

\* send_coinswap: maker_refund_locktime of the hop maker_index
maker_refund_locktime(maker_count, maker_index) ==
    U16(REFUND_LOCKTIME + U16(REFUND_LOCKTIME_STEP * U16(U16(maker_count - maker_index) - 1)))

\* (variant: the last peer is looked for one hop too far)
position_for_off_by_one(maker_index, maker_count) ==
    IF maker_index = 0 THEN "FirstPeer"
    ELSE IF maker_index = maker_count THEN "LastPeer"
    ELSE "WatchOnly"

\* The position send_coinswap sets before the hop maker_index
\* (settle_all_swaps sets it the same way from index).
position_for(maker_index, maker_count) ==
    IF maker_index = 0 THEN "FirstPeer"
    ELSE IF maker_index = maker_count - 1 THEN "LastPeer"
    ELSE "WatchOnly"

\* send_coinswap, `for maker_index in 0..maker_count`: the loop has another
\* turn after the one for maker_index.
\* (variant: the loop stops one turn early)
more_hops_one_short(maker_index, maker_count) == maker_index + 2 < maker_count

more_hops(maker_index, maker_count) == maker_index + 1 < maker_count

\* send_coinswap up to the loop of init_first_hop: draw the preimage, store
\* the swap parameters, set the position and compute the locktime.
send_coinswap ==
    /\ pc = At("main", "start")
    /\ \E preimage \in Preimages, maker_count \in 2..MaxMakerCount,
          tx_count \in 1..MaxTxCount, send_amount \in {0, SendAmount} :
         /\ ongoing_swap_state' =
              [ongoing_swap_state EXCEPT
                 !.active_preimage = preimage,
                 !.swap_params = [send_amount |-> send_amount,
                                  maker_count |-> maker_count,
                                  tx_count |-> tx_count,
                                  required_confirms |-> 1,
                                  fee_rate |-> FeeRate],
                 !.taker_position = "FirstPeer"]
         /\ loc' = [loc EXCEPT !.swap_locktime = swap_locktime(maker_count)]
         /\ hist' = [hist EXCEPT !.preimage = preimage,
                                 !.maker_count = maker_count]
    /\ pc' = At("main", "ifh_choose")
    /\ UNCHANGED <<offerbook, wallet, chain, sent, result>>

\* init_first_hop, one turn of its loop up to the sender-signature request:
\* choose a Maker, let the Wallet create the funding transactions and the
\* OutgoingSwapCoins (nothing is broadcast yet).
init_first_hop_choose ==
    /\ pc = At("main", "ifh_choose")
    /\ LET sp == ongoing_swap_state.swap_params
           m == choose_next_maker(offerbook, sp.send_amount)
       IN IF m = 0
          THEN RoundErr(choose_next_maker_err(offerbook, sp.send_amount))
          ELSE \/ RoundErr("Wallet: initalize_coinswap")
               \/ /\ loc' = [loc EXCEPT
                       !.maker = m,
                       !.funding_txs = sp.tx_count,
                       !.outgoing_swapcoins =
                           SwapCoins(0, m, sp.tx_count, sp.send_amount,
                                     get_preimage_hash(ongoing_swap_state),
                                     loc.swap_locktime),
                       !.rss_ii = 1, !.rss_ctx = "ifh"]
                  /\ pc' = At("rss", "connect")
                  /\ UNCHANGED <<offerbook, result>>
    /\ UNCHANGED <<ongoing_swap_state, wallet, chain, sent, hist>>

\* ------------------------------------------------------ req_sigs_for_sender
\* The swapcoins and the locktime req_sigs_for_sender was called with: the
\* fresh OutgoingSwapCoins and swap_locktime in init_first_hop, the fresh
\* WatchOnlySwapCoins and maker_refund_locktime in a hop.
RssCoins == IF loc.rss_ctx = "ifh" THEN loc.outgoing_swapcoins ELSE loc.watchonly_swapcoins
RssLocktime == IF loc.rss_ctx = "ifh" THEN loc.swap_locktime ELSE loc.maker_refund_locktime

\* req_sigs_for_sender_once: send ReqContractSigsForSender.
req_sigs_for_sender_once_send ==
    /\ pc = At("rss", "send")
    /\ \/ /\ sent' = [type |-> "ReqContractSigsForSender", to |-> Peer("rss"),
                     edge |-> RssCoins.edge, n |-> RssCoins.n,
                     hashvalue |-> RssCoins.hashvalue, locktime |-> RssLocktime]
          /\ pc' = At("rss", "read")
          /\ UNCHANGED <<loc, offerbook, result>>
       \/ /\ Fail("rss", "Network: write")
          /\ UNCHANGED sent
    /\ UNCHANGED <<ongoing_swap_state, wallet, chain, hist>>

\* (variant: the signatures are counted but not verified)
check_contract_sigs_count_only(n_sigs, all_verify, n_swapcoins) ==
    IF n_sigs # n_swapcoins THEN "Protocol: wrong number of signatures from maker"
    ELSE "Ok"

\* (variant: the signatures are verified but not counted)
check_contract_sigs_verify_only(n_sigs, all_verify, n_swapcoins) ==
    IF ~all_verify THEN "Protocol: invalid signature from maker"
    ELSE "Ok"

\* req_sigs_for_sender_once / req_sigs_for_recvr_once: the checks of the
\* signatures a Maker returned, n_sigs of them, all_verify telling whether
\* each verifies against its swapcoin's contract tx.
check_contract_sigs(n_sigs, all_verify, n_swapcoins) ==
    IF n_sigs # n_swapcoins THEN "Protocol: wrong number of signatures from maker"
    ELSE IF ~all_verify THEN "Protocol: invalid signature from maker"
    ELSE "Ok"

\* The numbers of items a Maker may put in a list where n are expected.
Counts(n) == {n - 1, n, n + 1} \cap Nat

\* An init_first_hop that does not hand its swapcoins to the Wallet.
outgoing_swapcoin_not_added(w, coins) == w

\* init_first_hop: self.wallet.add_outgoing_swapcoin(..) for each of the
\* outgoing swapcoins.
add_outgoing_swapcoin(w, coins) == [w EXCEPT !.outgoing_swapcoins = Append(@, coins)]

\* init_first_hop after req_sigs_for_sender returned Ok: the Maker is good,
\* its peer info is recorded, the signatures are stored on the outgoing
\* swapcoins, which go to the Wallet; the Wallet is saved (unwrap).
init_first_hop_commit(disk_ok) ==
    LET m == loc.maker
        coins == [loc.outgoing_swapcoins EXCEPT !.sig = TRUE]
        st == [ongoing_swap_state EXCEPT
                 !.peer_infos = Append(@, PeerInfo(m, m, coins.n, coins.hashvalue,
                                                   loc.swap_locktime))]
    IN /\ offerbook' = add_good_maker(offerbook, m)
       /\ IF disk_ok
          THEN /\ ongoing_swap_state' = [st EXCEPT !.outgoing_swapcoins = <<coins>>]
               /\ wallet' = [add_outgoing_swapcoin(wallet, coins) EXCEPT !.saves = @ + 1]
               /\ pc' = At("main", "ifh_broadcast")
               /\ loc' = [loc EXCEPT !.outgoing_swapcoins = NoSwapCoins,
                                     !.rss_ii = 0, !.rss_ctx = "none"]
               /\ UNCHANGED result
          ELSE /\ ongoing_swap_state' = st
               /\ wallet' = add_outgoing_swapcoin(wallet, coins)
               /\ pc' = At("main", "done")
               /\ loc' = LocInit
               /\ result' = [status |-> "panic", err |-> "Disk: save_to_disk"]

\* ------------------------------------------------- send_sigs_init_next_hop
\* funding_info_for_next_maker: the FundingTxInfos are zipped from the last
\* funding_txs entry, the redeemscripts of the outgoing swapcoins (FirstPeer)
\* or of the last watch-only swapcoins, and the nonces of the last peer info.
funding_info_for_next_maker(st) ==
    LET coins == IF st.taker_position = "FirstPeer"
                 THEN st.outgoing_swapcoins[1]
                 ELSE Last(st.watchonly_swapcoins)
        funding == Last(st.funding_txs)
        n == IF funding.n <= coins.n THEN funding.n ELSE coins.n
    IN [edge |-> funding.edge,
        n |-> IF n <= Last(st.peer_infos).n THEN n ELSE Last(st.peer_infos).n,
        amount |-> funding.amount,
        contract_redeemscript |-> [hashvalue |-> coins.hashvalue, locktime |-> coins.locktime]]

\* send_coinswap, the top of its loop for the hop maker_index: set the
\* position and the locktime, collect the funding infos, and enter the
\* envelope send_sigs_init_next_hop (ii = 1).
BeginHopState(st, maker_index) ==
    [st EXCEPT !.taker_position = position_for(maker_index, st.swap_params.maker_count)]

BeginHopLoc(l, st, maker_index) ==
    [DropHopAttempt(l) EXCEPT
        !.maker_index = maker_index,
        !.maker_refund_locktime =
            maker_refund_locktime(st.swap_params.maker_count, maker_index),
        !.funding_tx_infos = funding_info_for_next_maker(st),
        !.hop_ii = 1, !.watch_ctx = "none", !.txid_tx_map = {}]

\* send_coinswap, the next turn of its loop.
next_hop(st, l, maker_index) ==
    /\ ongoing_swap_state' = BeginHopState(st, maker_index)
    /\ pc' = At("hop", "connect")
    /\ loc' = [BeginHopLoc(l, BeginHopState(st, maker_index), maker_index)
                 EXCEPT !.maker = 0, !.funding_txs = 0]
    /\ UNCHANGED result

\* contracts::calculate_coinswap_fee
calculate_coinswap_fee(absolute_fee_sat, amount_relative_fee_ppb, time_relative_fee_ppb, total_funding_amount, time_in_blocks) ==
    absolute_fee_sat
      + (total_funding_amount * amount_relative_fee_ppb) \div 1000000000
      + (total_funding_amount * time_in_blocks * time_relative_fee_ppb) \div 1000000000

\* (variant: the miner fee is left out)
next_amount_without_miner_fees(this_maker, this_amount, next_fee_rate, n_next) ==
    this_amount - calculate_coinswap_fee(Offer(this_maker).absolute_fee_sat,
                                         Offer(this_maker).amount_relative_fee_ppb,
                                         Offer(this_maker).time_relative_fee_ppb,
                                         this_amount, 1)

\* send_proof_of_funding_and_init_next_hop: calculated_next_amount
calculated_next_amount(this_maker, this_amount, next_fee_rate, n_next) ==
    LET coinswap_fees ==
            calculate_coinswap_fee(Offer(this_maker).absolute_fee_sat,
                                   Offer(this_maker).amount_relative_fee_ppb,
                                   Offer(this_maker).time_relative_fee_ppb,
                                   this_amount, 1)
        miner_fees_paid_by_taker ==
            (MAKER_FUNDING_TX_VBYTE_SIZE * next_fee_rate * n_next) \div 1000
    IN this_amount - coinswap_fees - miner_fees_paid_by_taker

\* send_proof_of_funding_and_init_next_hop: the checks of the Maker's
\* ReqContractSigsAsRecvrAndSender m, in the order of the code.
\* contract_edge is the funding edge of this_maker_contract_txes, whose
\* outpoints validate_contract_tx requires the receivers contracts to spend.
check_proof_of_funding_reply(m, n_funding_tx_infos, n_next, this_maker, this_amount, next_fee_rate, contract_edge) ==
    IF m.n_recv # n_funding_tx_infos
    THEN "Protocol: wrong number of receivers contracts tx from maker"
    ELSE IF m.n_send # n_next
    THEN "Protocol: wrong number of senders contract txes from maker"
    ELSE IF calculated_next_amount(this_maker, this_amount, next_fee_rate, n_next)
              # m.next_amount
    THEN "Protocol: next_amount incorrect"
    ELSE IF m.recv_edge # contract_edge
    THEN "Protocol: bad contract tx"
    ELSE "Ok"

\* send_sigs_init_next_hop_once: this_maker_contract_txs, as the funding
\* edge they spend.
this_maker_contract_txs(st) ==
    IF st.taker_position = "FirstPeer"
    THEN st.outgoing_swapcoins[1].edge
    ELSE Last(st.watchonly_swapcoins).edge

\* A Taker that never takes itself for the next peer.
taker_is_never_next_peer(st) == FALSE

\* send_sigs_init_next_hop_once: taker_position == TakerPosition::LastPeer,
\* the next peer of this Maker is the Taker.
taker_is_next_peer(st) == st.taker_position = "LastPeer"

\* send_sigs_init_next_hop_once, the top of its inner loop: pick the next
\* peer (the Taker itself at the last hop, else choose_next_maker) and send
\* ProofOfFunding to this Maker.
send_proof_of_funding ==
    /\ pc = At("hop", "pof_send")
    /\ LET st == ongoing_swap_state
           last_peer == taker_is_next_peer(st)
           cand == IF last_peer THEN Peer("hop")
                   ELSE choose_next_maker(offerbook, st.swap_params.send_amount)
           infos == loc.funding_tx_infos
       IN IF cand = 0
          THEN /\ HopFail(choose_next_maker_err(offerbook, st.swap_params.send_amount))
               /\ UNCHANGED <<sent, hist>>
          ELSE \/ /\ sent' = [type |-> "ProofOfFunding", to |-> Peer("hop"),
                             maker_index |-> loc.maker_index,
                             funding_edge |-> infos.edge, n |-> infos.n,
                             contract_redeemscript |-> infos.contract_redeemscript,
                             n_next |-> st.swap_params.tx_count,
                             next_peer |-> IF last_peer THEN 0 ELSE cand,
                             next_locktime |-> loc.maker_refund_locktime,
                             next_fee_rate |-> st.swap_params.fee_rate]
                  /\ pc' = At("hop", "pof_read")
                  /\ loc' = [loc EXCEPT !.next_maker = cand]
                  /\ hist' = [hist EXCEPT !.proofs_of_funding = @ + 1]
                  /\ UNCHANGED <<offerbook, result>>
               \/ /\ HopFail("Network: write")
                  /\ UNCHANGED <<sent, hist>>
    /\ UNCHANGED <<ongoing_swap_state, wallet, chain>>

\* create_watch_only_swapcoins for the funding edge this Maker is about to
\* fund towards the candidate next Maker.
create_watch_only_swapcoins(st, l, m) ==
    SwapCoins(l.maker_index + 1, l.next_maker, m.n_send, m.next_amount,
              get_preimage_hash(st), l.maker_refund_locktime)

\* send_sigs_init_next_hop_once: the swapcoins of the previous hop, whose
\* receiver signatures the previous Maker is asked for.
previous_maker_watchonly_swapcoins(st) ==
    IF st.taker_position = "LastPeer"
    THEN Last(st.watchonly_swapcoins)
    ELSE st.watchonly_swapcoins[Len(st.watchonly_swapcoins) - 1]

\* send_sigs_init_next_hop_once once senders_sigs are there (n of them),
\* with st the swap state by then: produce receivers_sigs.  The first peer
\* signs with its outgoing swapcoins; otherwise the previous Maker is asked
\* (req_sigs_for_recvr, ii = 1).
ReceiversSigs(st, l, n) ==
    IF st.taker_position = "FirstPeer"
    THEN /\ pc' = At("hop", "resp_send")
         /\ loc' = [l EXCEPT !.senders_sigs = n,
                             !.receivers_sigs =
                                 IF l.contract_sigs.n_recv <= st.outgoing_swapcoins[1].n
                                 THEN l.contract_sigs.n_recv
                                 ELSE st.outgoing_swapcoins[1].n,
                             !.rss_ii = 0, !.rss_ctx = "none"]
    ELSE /\ pc' = At("rsr", "connect")
         /\ loc' = [l EXCEPT !.senders_sigs = n,
                             !.rss_ii = 0, !.rss_ctx = "none",
                             !.rsr_ii = 1, !.rsr_ctx = "hop"]

\* The ReqContractSigsAsRecvrAndSender messages a Maker may answer with.
ProofOfFundingReplies(st, l) ==
    { [n_recv |-> a, n_send |-> b, next_amount |-> c, recv_edge |-> e] :
        a \in Counts(l.funding_tx_infos.n),
        b \in Counts(st.swap_params.tx_count),
        c \in { calculated_next_amount(Peer("hop"), l.funding_tx_infos.amount,
                                       st.swap_params.fee_rate,
                                       st.swap_params.tx_count) + d : d \in {-1, 0, 1} },
        e \in {l.maker_index, l.maker_index + 1} }

\* send_proof_of_funding_and_init_next_hop after the send, and
\* send_sigs_init_next_hop_once up to its next suspension point: read the
\* Maker's ReqContractSigsAsRecvrAndSender and check it; then the last peer
\* signs the senders contracts itself, and otherwise the watch-only
\* swapcoins are created and the candidate next Maker is asked for the
\* senders signatures (req_sigs_for_sender, ii = 1).
read_proof_of_funding_reply ==
    /\ pc = At("hop", "pof_read")
    /\ LET st == ongoing_swap_state
           Read(m, verdict) ==
               hist' = [hist EXCEPT !.pof_reply = [reply |-> m, verdict |-> verdict],
                                    !.receiver_sigs = {}]
       IN
       \/ \E e \in ReadErrors("signsendersandreceiverscontracttxes") :
            HopFail(e) /\ Read(NoMsg, e)
       \/ \E m \in ProofOfFundingReplies(st, loc) :
            LET chk == check_proof_of_funding_reply(
                          m, loc.funding_tx_infos.n, st.swap_params.tx_count,
                          Peer("hop"), loc.funding_tx_infos.amount,
                          st.swap_params.fee_rate, this_maker_contract_txs(st))
            IN IF chk # "Ok" THEN HopFail(chk) /\ Read(m, chk)
               ELSE IF taker_is_next_peer(st)
               THEN /\ ReceiversSigs(st, [loc EXCEPT !.contract_sigs = m],
                                     st.swap_params.tx_count)
                    /\ Read(m, "Ok")
                    /\ UNCHANGED <<offerbook, result>>
               ELSE \/ /\ HopFail("Protocol: create_watch_only_swapcoins")
                       /\ Read(m, "Protocol: create_watch_only_swapcoins")
                    \/ /\ Read(m, "Ok")
                       /\ pc' = At("rss", "connect")
                       /\ loc' = [loc EXCEPT
                            !.contract_sigs = m,
                            !.watchonly_swapcoins = create_watch_only_swapcoins(st, loc, m),
                            !.rss_ii = 1, !.rss_ctx = "hop"]
                       /\ UNCHANGED <<offerbook, result>>
    /\ sent' = NoMessage
    /\ UNCHANGED <<ongoing_swap_state, wallet, chain>>

\* send_sigs_init_next_hop_once after req_sigs_for_sender returned Ok: the
\* candidate is good, the watch-only swapcoins are pushed to the swap state.
next_maker_signed(n_sigs) ==
    LET st == [ongoing_swap_state EXCEPT
                 !.watchonly_swapcoins = Append(@, loc.watchonly_swapcoins)]
    IN /\ offerbook' = add_good_maker(offerbook, loc.next_maker)
       /\ ongoing_swap_state' = st
       /\ ReceiversSigs(st, loc, n_sigs)
       /\ UNCHANGED <<wallet, result>>

\* req_sigs_for_sender_once: read RespContractSigsForSender and check it.
req_sigs_for_sender_once_read ==
    /\ pc = At("rss", "read")
    /\ \/ /\ \E e \in ReadErrors("senderscontractsig") : RssFail(e)
          /\ UNCHANGED <<ongoing_swap_state, wallet, hist>>
       \/ \E n_sigs \in Counts(RssCoins.n), all_verify \in BOOLEAN :
            LET chk == check_contract_sigs(n_sigs, all_verify, RssCoins.n) IN
            IF chk # "Ok"
            THEN /\ RssFail(chk)
                 /\ hist' = [hist EXCEPT !.rejected_sender_sigs = @ \cup
                               IF loc.rss_ctx = "ifh" THEN {RssCoins.to} ELSE {}]
                 /\ UNCHANGED <<ongoing_swap_state, wallet>>
            ELSE /\ hist' = [hist EXCEPT !.sender_sigs = @ \cup
                               {[edge |-> RssCoins.edge, to |-> RssCoins.to,
                                 requested |-> RssCoins.n, returned |-> n_sigs,
                                 all_verify |-> all_verify]}]
                 /\ IF loc.rss_ctx = "ifh"
                    THEN \E disk_ok \in BOOLEAN : init_first_hop_commit(disk_ok)
                    ELSE next_maker_signed(n_sigs)
    /\ sent' = NoMessage
    /\ UNCHANGED chain

\* ------------------------------------------------------- req_sigs_for_recvr
\* The swapcoins req_sigs_for_recvr was called with.
RsrCoins ==
    IF loc.rsr_ctx = "hop"
    THEN previous_maker_watchonly_swapcoins(ongoing_swap_state)
    ELSE ongoing_swap_state.incoming_swapcoins[1]

\* req_sigs_for_recvr_once: send ReqContractSigsForRecvr.
req_sigs_for_recvr_once_send ==
    /\ pc = At("rsr", "send")
    /\ \/ /\ sent' = [type |-> "ReqContractSigsForRecvr", to |-> Peer("rsr"),
                     edge |-> RsrCoins.edge, coins_to |-> RsrCoins.to,
                     n |-> RsrCoins.n, for |-> loc.rsr_ctx]
          /\ pc' = At("rsr", "read")
          /\ UNCHANGED <<loc, offerbook, result>>
       \/ /\ Fail("rsr", "Network: write")
          /\ UNCHANGED sent
    /\ UNCHANGED <<ongoing_swap_state, wallet, chain, hist>>

\* (variant: the last peer info is not left out)
maker_addresses_with_last_peer(st) == Len(st.peer_infos)

\* settle_all_swaps: maker_addresses, the peer infos but the last (the
\* Taker's own), as their number; the loop runs over the indices below it.
maker_addresses(st) == Len(st.peer_infos) - 1

\* settle_all_swaps, the top of its loop for index: set the position and
\* enter the envelope around settle_one_coinswap (ii = 1).  The expect()s on
\* watchonly_swapcoins.get(..) panic when the entry is missing.
BeginSettleState(st, index) ==
    [st EXCEPT !.taker_position = position_for(index, st.swap_params.maker_count)]

SettleEntriesThere(st, index) ==
    LET pos == position_for(index, st.swap_params.maker_count) IN
    /\ pos # "FirstPeer" => index <= Len(st.watchonly_swapcoins)
    /\ pos # "LastPeer" => index + 1 <= Len(st.watchonly_swapcoins)

BeginSettleLoc(l, index) ==
    [l EXCEPT !.index = index, !.settle_ii = 1, !.privkeys_reply = NoKey,
              !.handover = NoKey]

\* send_coinswap after its loop: settle_all_swaps starts with index 0 (the
\* last peer info, the Taker itself, is left out).
settle_all_swaps_begin(st) ==
    /\ ongoing_swap_state' = BeginSettleState(st, 0)
    /\ IF SettleEntriesThere(st, 0)
       THEN /\ pc' = At("settle", "connect")
            /\ loc' = BeginSettleLoc(LocInit, 0)
            /\ UNCHANGED result
       ELSE /\ pc' = At("main", "done")
            /\ loc' = LocInit
            /\ result' = [status |-> "panic", err |-> "watchonly coins expected"]

\* request_sigs_for_incoming_swap after req_sigs_for_recvr returned Ok: the
\* signatures are stored on the incoming swapcoins, which go to the Wallet;
\* the Wallet is saved (unwrap).  That ends the turn of the build loop.
incoming_swap_signed(disk_ok) ==
    LET coins == [ongoing_swap_state.incoming_swapcoins[1] EXCEPT !.sig = TRUE]
        st == [ongoing_swap_state EXCEPT !.incoming_swapcoins = <<coins>>]
    IN /\ hist' = [hist EXCEPT !.incoming_sigs = TRUE]
       /\ UNCHANGED offerbook
       /\ IF ~disk_ok
          THEN /\ ongoing_swap_state' = st
               /\ wallet' = [wallet EXCEPT !.incoming_swapcoins = Append(@, coins)]
               /\ pc' = At("main", "done")
               /\ loc' = LocInit
               /\ result' = [status |-> "panic", err |-> "Disk: save_to_disk"]
          ELSE /\ wallet' = [wallet EXCEPT !.incoming_swapcoins = Append(@, coins),
                                           !.saves = @ + 1]
               /\ IF more_hops(loc.maker_index, st.swap_params.maker_count)
                  THEN next_hop(st, loc, loc.maker_index + 1)
                  ELSE settle_all_swaps_begin(st)

\* req_sigs_for_recvr_once: read RespContractSigsForRecvr and check it.
req_sigs_for_recvr_once_read ==
    /\ pc = At("rsr", "read")
    /\ \/ /\ \E e \in ReadErrors("receiverscontractsig") : RsrFail(e)
          /\ UNCHANGED <<ongoing_swap_state, wallet, hist>>
       \/ \E n_sigs \in Counts(RsrCoins.n), all_verify \in BOOLEAN :
            LET chk == check_contract_sigs(n_sigs, all_verify, RsrCoins.n) IN
            IF chk # "Ok"
            THEN /\ RsrFail(chk)
                 /\ UNCHANGED <<ongoing_swap_state, wallet, hist>>
            ELSE IF loc.rsr_ctx = "hop"
            THEN /\ pc' = At("hop", "resp_send")
                 /\ loc' = [loc EXCEPT !.receivers_sigs = n_sigs,
                                       !.rsr_ii = 0, !.rsr_ctx = "none"]
                 /\ hist' = [hist EXCEPT !.receiver_sigs = @ \cup
                               {[edge |-> RsrCoins.edge, by |-> Peer("rsr"),
                                 requested |-> RsrCoins.n, returned |-> n_sigs,
                                 all_verify |-> all_verify]}]
                 /\ UNCHANGED <<ongoing_swap_state, wallet, offerbook, result>>
            ELSE \E disk_ok \in BOOLEAN : incoming_swap_signed(disk_ok)
    /\ sent' = NoMessage
    /\ UNCHANGED chain

\* (variant: a transaction that is merely seen counts)
required_confirmations_none(st) == 0

\* The threshold taken from the swap parameters at every hop.
required_confirmations_of_swap_params(st) == st.swap_params.required_confirms

\* watch_for_txs: required_confirmations
required_confirmations(st) ==
    IF st.taker_position = "LastPeer"
    THEN st.swap_params.required_confirms
    ELSE Offer(Last(st.peer_infos).peer).required_confirms

\* watch_for_txs: contracts_to_watch, as the funding edges whose contract
\* transactions are watched (those of the watch-only swapcoins, then those
\* of the outgoing swapcoins).
contracts_to_watch(st) ==
    { st.watchonly_swapcoins[i].edge : i \in 1..Len(st.watchonly_swapcoins) }
      \cup { st.outgoing_swapcoins[i].edge : i \in 1..Len(st.outgoing_swapcoins) }

\* (variant: the watched contracts are never looked up)
contracts_broadcasted_unchecked(st, ch) == {}

\* watch_for_txs: contracts_broadcasted, the watched contracts that
\* check_for_broadcasted_contract_txes finds on chain or in the mempool.
contracts_broadcasted(st, ch) ==
    { c \in ch.contracts : c.edge \in contracts_to_watch(st) }

\* send_sigs_init_next_hop_once, its end: send
\* RespContractSigsForRecvrAndSender and return the next peer's info, which
\* send_coinswap pushes to peer_infos before it calls watch_for_txs on the
\* funding transactions this Maker is to broadcast.
send_contract_sigs_for_recvr_and_sender ==
    /\ pc = At("hop", "resp_send")
    /\ \/ /\ sent' = [type |-> "RespContractSigsForRecvrAndSender", to |-> Peer("hop"),
                     maker_index |-> loc.maker_index,
                     receivers_sigs |-> loc.receivers_sigs,
                     senders_sigs |-> loc.senders_sigs]
          /\ hist' = [hist EXCEPT !.pof_reply = NoReply, !.exchanged =
                        Append(@, [maker_index |-> loc.maker_index, to |-> Peer("hop")])]
          /\ ongoing_swap_state' = [ongoing_swap_state EXCEPT
               !.peer_infos = push_next_swap_info(ongoing_swap_state,
                   PeerInfo(loc.next_maker,
                            IF ongoing_swap_state.taker_position = "LastPeer"
                            THEN 0 ELSE loc.next_maker,
                            ongoing_swap_state.swap_params.tx_count,
                            get_preimage_hash(ongoing_swap_state),
                            loc.maker_refund_locktime))]
          /\ pc' = At("main", "watch")
          /\ loc' = [loc EXCEPT !.watch_ctx = "hop", !.txid_tx_map = {},
                                !.hop_ii = 0, !.senders_sigs = 0, !.receivers_sigs = 0]
          /\ chain' = [chain EXCEPT !.confs = [i \in 1..MaxTxCount |-> 0]]
          /\ UNCHANGED <<offerbook, result>>
       \/ /\ HopFail("Network: write")
          /\ UNCHANGED <<sent, ongoing_swap_state, chain, hist>>
    /\ UNCHANGED wallet

\* ------------------------------------------------------------ watch_for_txs
\* The build phase of the round: from the call of send_coinswap to the end
\* of its loop over the hops.
InBuildPhase == result.status = "running" /\ pc.f # "settle" /\ pc # At("main", "start")

\* init_first_hop: submit the funding transactions one after the other (the
\* first failure returns with `?`), then call watch_for_txs on their txids.
init_first_hop_broadcast ==
    /\ pc = At("main", "ifh_broadcast")
    /\ \E k \in 0..loc.funding_txs :
         /\ chain' = [chain EXCEPT !.submitted = k,
                                   !.submitted_to = IF k > 0 THEN loc.maker ELSE 0,
                                   !.confs = [i \in 1..MaxTxCount |-> 0]]
         /\ IF k = loc.funding_txs
            THEN /\ pc' = At("main", "watch")
                 /\ loc' = [loc EXCEPT !.watch_ctx = "ifh", !.txid_tx_map = {}]
                 /\ UNCHANGED <<offerbook, result>>
            ELSE RoundErr("Rpc: send_raw_transaction")
    /\ UNCHANGED <<ongoing_swap_state, wallet, sent, hist>>

\* The funding txids watch_for_txs was called with, as their indices.
funding_txids == 1..(IF loc.watch_ctx = "ifh" THEN loc.funding_txs
                     ELSE loc.contract_sigs.n_send)

\* create_incoming_swapcoins, from the last funding_txs entry and the last
\* peer info (the Taker's own).
create_incoming_swapcoins(st) ==
    [SwapCoins(Last(st.funding_txs).edge, 0, Last(st.funding_txs).n,
               Last(st.funding_txs).amount,
               Last(st.peer_infos).contract_reedemscripts.hashvalue,
               Last(st.peer_infos).contract_reedemscripts.locktime)
       EXCEPT !.hash_preimage = st.active_preimage]

\* The caller of watch_for_txs after it returned Some(..): the funding is
\* pushed to funding_txs.  init_first_hop returns and the loop of
\* send_coinswap starts with hop 0; in the loop, the last peer creates the
\* incoming swapcoins and asks for their signatures (req_sigs_for_recvr,
\* ii = 1), and otherwise the turn is over: the next hop follows, or
\* settle_all_swaps after the last turn.
funding_confirmed ==
    LET funding == IF loc.watch_ctx = "ifh"
                   THEN [edge |-> 0, n |-> loc.funding_txs,
                         amount |-> ongoing_swap_state.swap_params.send_amount]
                   ELSE [edge |-> loc.maker_index + 1, n |-> loc.contract_sigs.n_send,
                         amount |-> loc.contract_sigs.next_amount]
        st == [ongoing_swap_state EXCEPT !.funding_txs = Append(@, funding)]
        next_index == IF loc.watch_ctx = "ifh" THEN 0 ELSE loc.maker_index + 1
    IN /\ hist' = [hist EXCEPT !.confirmed = @ + 1]
       /\ UNCHANGED offerbook
       /\ IF loc.watch_ctx = "hop" /\ st.taker_position = "LastPeer"
          THEN \/ /\ ongoing_swap_state' = st
                  /\ pc' = At("main", "done")
                  /\ loc' = LocInit
                  /\ result' = [status |-> "err", err |-> "Protocol: create_incoming_swapcoins"]
               \/ /\ ongoing_swap_state' =
                       [st EXCEPT !.incoming_swapcoins = <<create_incoming_swapcoins(st)>>]
                  /\ pc' = At("rsr", "connect")
                  /\ loc' = [DropHopAttempt(loc) EXCEPT
                               !.watch_ctx = "none", !.txid_tx_map = {},
                               !.maker = 0, !.funding_txs = 0,
                               !.funding_tx_infos = NoFundingInfo,
                               !.rsr_ii = 1, !.rsr_ctx = "incoming"]
                  /\ UNCHANGED result
          ELSE IF loc.watch_ctx = "hop"
                  /\ ~more_hops(loc.maker_index, st.swap_params.maker_count)
          THEN settle_all_swaps_begin(st)
          ELSE next_hop(st, loc, next_index)

\* A caller that takes the None of watch_for_txs for confirmed funding.
watcher_returned_none_taken_for_some == funding_confirmed

\* The caller of watch_for_txs after it returned Ok(None): init_first_hop
\* unwraps the Option, the loop of send_coinswap runs into panic!("ending").
watcher_returned_none ==
    /\ Panic(IF loc.watch_ctx = "ifh" THEN "unwrap on None" ELSE "ending")
    /\ UNCHANGED <<ongoing_swap_state, hist>>

\* The watcher returning as soon as one transaction is in txid_tx_map.
any_txid_confirmed(map, txids) == map # {}

\* watch_for_txs: txid_tx_map.len() == funding_txids.len().
all_txids_confirmed(map, txids) == Cardinality(map) = Cardinality(txids)

\* watch_for_txs, one turn of its loop.  The lookups of `looked` succeed,
\* the others fail and are skipped; a transaction with enough confirmations
\* enters txid_tx_map.  When all are in, the merkle proofs are fetched and
\* the function returns Some(..); otherwise the watched contracts are checked
\* and the function returns None when one was broadcast, else sleeps 1 s.
\* chain.confs counts the confirmations of the transactions being watched
\* and starts again from zero for the next call.
watch_for_txs ==
    /\ pc = At("main", "watch")
    /\ \E looked \in SUBSET (funding_txids \ loc.txid_tx_map) :
         LET map == loc.txid_tx_map \cup
                      { i \in looked :
                          chain.confs[i] >= required_confirmations(ongoing_swap_state) }
             broadcasted == contracts_broadcasted(ongoing_swap_state, chain)
         IN IF all_txids_confirmed(map, funding_txids)
            THEN /\ chain' = [chain EXCEPT !.confs = [i \in 1..MaxTxCount |-> 0]]
                 /\ \/ funding_confirmed
                    \/ /\ RoundErr("Rpc: get_tx_out_proof")
                       /\ UNCHANGED <<ongoing_swap_state, hist>>
            ELSE /\ UNCHANGED chain
                 /\ \/ /\ RoundErr("Rpc: check_for_broadcasted_contract_txes")
                       /\ UNCHANGED <<ongoing_swap_state, hist>>
                    \/ /\ broadcasted # {}
                       /\ watcher_returned_none
                    \/ /\ broadcasted = {}
                       /\ pc' = pc
                       /\ loc' = [loc EXCEPT !.txid_tx_map = map]
                       /\ UNCHANGED <<ongoing_swap_state, hist, offerbook, result>>
    /\ UNCHANGED <<wallet, sent>>

\* The chain: a watched funding transaction gains a confirmation.
chain_confirm(i) ==
    /\ pc = At("main", "watch")
    /\ i \in funding_txids
    /\ chain.confs[i] < MaxConfs
    /\ chain' = [chain EXCEPT !.confs[i] = @ + 1]
    /\ UNCHANGED <<ongoing_swap_state, offerbook, wallet, pc, loc, sent, hist, result>>

\* The chain: the contract transaction of a funding edge whose funding was
\* broadcast becomes visible (on chain or in the mempool); after_hop_confirmed
\* notes whether the watcher had returned the funding of a hop by then.
broadcast_contract(e) ==
    /\ InBuildPhase
    /\ e \in contracts_to_watch(ongoing_swap_state)
    /\ e = 0 => chain.submitted > 0
    /\ e > 0 => Len(ongoing_swap_state.peer_infos) > e
    /\ \A c \in chain.contracts : c.edge # e
    /\ Cardinality(chain.contracts) < MaxBroadcastContracts
    /\ chain' = [chain EXCEPT !.contracts =
                   @ \cup {[edge |-> e, after_hop_confirmed |-> hist.confirmed >= 2]}]
    /\ UNCHANGED <<ongoing_swap_state, offerbook, wallet, pc, loc, sent, hist, result>>

\* --------------------------------------------------------- settle_all_swaps
\* settle_all_swaps: senders_multisig_redeemscripts and
\* receivers_multisig_redeemscripts of the step index, as the swapcoins
\* they are read from.
senders_multisig_redeemscripts(st, index) ==
    IF st.taker_position = "FirstPeer"
    THEN st.outgoing_swapcoins[1]
    ELSE st.watchonly_swapcoins[index]

receivers_multisig_redeemscripts(st, index) ==
    IF st.taker_position = "LastPeer"
    THEN st.incoming_swapcoins[1]
    ELSE st.watchonly_swapcoins[index + 1]

\* settle_one_coinswap, send_hash_preimage_and_get_private_keys: send
\* HashPreimage.
send_hash_preimage ==
    /\ pc = At("settle", "hp_send")
    /\ LET st == ongoing_swap_state
           snd == senders_multisig_redeemscripts(st, loc.index)
           rcv == receivers_multisig_redeemscripts(st, loc.index)
       IN \/ /\ sent' = [type |-> "HashPreimage", to |-> Peer("settle"),
                        index |-> loc.index,
                        senders_edge |-> snd.edge, senders_to |-> snd.to,
                        receivers_edge |-> rcv.edge, receivers_to |-> rcv.to,
                        preimage |-> st.active_preimage]
             /\ pc' = At("settle", "hp_read")
             /\ UNCHANGED <<loc, offerbook, result>>
          \/ /\ SettleFail("Network: write")
             /\ UNCHANGED sent
    /\ UNCHANGED <<ongoing_swap_state, wallet, chain, hist>>

\* SwapCoin::apply_privkey on the swapcoins of one funding edge: the key
\* must belong to the multisig.
apply_privkey_ok(coins, key) == key.ok /\ key.edge = coins.edge

\* (variant: the keys are stored without being checked)
check_and_apply_unchecked(coins, key) == "Ok"

\* check_and_apply_maker_private_keys: Ok, or the error of the first key
\* that apply_privkey refuses.
check_and_apply_maker_private_keys(coins, key) ==
    IF apply_privkey_ok(coins, key) THEN "Ok" ELSE "Protocol: wrong privkey"

\* settle_one_coinswap: privkeys_reply, and what is left in
\* outgoing_privkeys once it is built.
privkeys_reply(st, outgoing_privkeys) ==
    IF st.taker_position = "FirstPeer" THEN Key(0, 0, TRUE) ELSE outgoing_privkeys

outgoing_privkeys_taken(st, outgoing_privkeys) ==
    IF st.taker_position = "FirstPeer" THEN outgoing_privkeys ELSE NoKey

\* settle_one_coinswap from the read of the Maker's PrivKeyHandover to the
\* next suspension point: check the number of keys, build the reply (the
\* assert! on outgoing_privkeys panics when it is None), apply the Maker's
\* keys to the incoming swapcoins (last peer) or to the watch-only swapcoins
\* of index, stashing them in outgoing_privkeys.
read_privkey_handover ==
    /\ pc = At("settle", "hp_read")
    /\ sent' = NoMessage
    /\ UNCHANGED <<wallet, chain>>
    /\ LET st == ongoing_swap_state
           rcv == receivers_multisig_redeemscripts(st, loc.index)
       IN
       \/ /\ \E e \in ReadErrors("privatekeyhandover") : SettleFail(e)
          /\ UNCHANGED <<ongoing_swap_state, hist>>
       \/ \E n \in Counts(rcv.n), good \in BOOLEAN :
            LET key == Key(loc.index + 1, Peer("settle"), good)
                reply == privkeys_reply(st, loc.outgoing_privkeys)
                taken == outgoing_privkeys_taken(st, loc.outgoing_privkeys)
                incoming == check_and_apply_maker_private_keys(
                                st.incoming_swapcoins[1], key)
                watchonly == check_and_apply_maker_private_keys(
                                 st.watchonly_swapcoins[loc.index + 1], key)
            IN
            IF n # rcv.n
            THEN /\ SettleFail("Protocol: wrong number of private keys from maker")
                 /\ UNCHANGED <<ongoing_swap_state, hist>>
            ELSE IF st.taker_position # "FirstPeer" /\ loc.outgoing_privkeys = NoKey
            THEN /\ Panic("assertion failed: outgoing_privkeys.is_some()")
                 /\ UNCHANGED <<ongoing_swap_state, hist>>
            ELSE IF st.taker_position = "LastPeer"
            THEN /\ hist' = [hist EXCEPT !.last_peer_handover =
                                [key |-> key, verdict |-> incoming]]
                 /\ IF incoming = "Ok"
                    THEN /\ ongoing_swap_state' =
                              [st EXCEPT !.incoming_swapcoins[1].privkey = key]
                         /\ pc' = At("settle", "pk_send")
                         /\ loc' = [loc EXCEPT !.outgoing_privkeys = taken,
                                               !.privkeys_reply = reply,
                                               !.handover = key]
                         /\ UNCHANGED <<offerbook, result>>
                    ELSE /\ SettleFailWith([loc EXCEPT !.outgoing_privkeys = taken],
                                           incoming)
                         /\ UNCHANGED ongoing_swap_state
            ELSE /\ UNCHANGED hist
                 /\ IF watchonly = "Ok"
                    THEN /\ ongoing_swap_state' =
                              [st EXCEPT !.watchonly_swapcoins[loc.index + 1].privkey = key]
                         /\ pc' = At("settle", "pk_send")
                         /\ loc' = [loc EXCEPT !.outgoing_privkeys = key,
                                               !.privkeys_reply = reply,
                                               !.handover = key]
                         /\ UNCHANGED <<offerbook, result>>
                    ELSE /\ SettleFailWith([loc EXCEPT !.outgoing_privkeys = key],
                                           watchonly)
                         /\ UNCHANGED ongoing_swap_state

\* (variant: the Wallet's incoming swapcoins are left as they are)
copy_no_privkeys(w, mine) == w.incoming_swapcoins

\* save_and_reset_swap_round, its last loop: the Wallet's incoming swapcoin
\* found for each incoming swapcoin of the round takes its other_privkey.
copy_other_privkeys(w, mine) ==
    [i \in 1..Len(w.incoming_swapcoins) |->
       IF \E j \in 1..Len(mine) : mine[j].edge = w.incoming_swapcoins[i].edge
       THEN [w.incoming_swapcoins[i] EXCEPT !.privkey = mine[1].privkey]
       ELSE w.incoming_swapcoins[i]]

\* save_and_reset_swap_round: copy other_privkey of the incoming swapcoins
\* to the Wallet's, save the Wallet (unwrap) and clear the swap state.
save_and_reset_swap_round(disk_ok) ==
    LET updated == copy_other_privkeys(wallet, ongoing_swap_state.incoming_swapcoins)
    IN /\ pc' = At("main", "done")
       /\ loc' = LocInit
       /\ UNCHANGED offerbook
       /\ IF disk_ok
          THEN /\ wallet' = [wallet EXCEPT !.incoming_swapcoins = updated, !.saves = @ + 1]
               /\ ongoing_swap_state' = DefaultSwapState
               /\ result' = [status |-> "ok", err |-> "none"]
          ELSE /\ wallet' = [wallet EXCEPT !.incoming_swapcoins = updated]
               /\ UNCHANGED ongoing_swap_state
               /\ result' = [status |-> "panic", err |-> "Disk: save_to_disk"]

\* settle_one_coinswap, its end: send the Taker's PrivKeyHandover.  The step
\* is done; settle_all_swaps goes on with the next Maker, and after the last
\* one send_coinswap calls save_and_reset_swap_round and returns Ok.
send_privkey_handover ==
    /\ pc = At("settle", "pk_send")
    /\ UNCHANGED chain
    /\ \/ /\ SettleFail("Network: write")
          /\ UNCHANGED <<ongoing_swap_state, wallet, sent, hist>>
       \/ /\ sent' = [type |-> "PrivKeyHandover", to |-> Peer("settle"),
                     index |-> loc.index, key |-> loc.privkeys_reply]
          /\ hist' = [hist EXCEPT !.settled =
                        Append(@, [index |-> loc.index, to |-> Peer("settle"),
                                   key |-> loc.handover])]
          /\ LET st == ongoing_swap_state
                 next == loc.index + 1
             IN IF next < maker_addresses(st)
                THEN /\ UNCHANGED <<wallet, offerbook>>
                     /\ ongoing_swap_state' = BeginSettleState(st, next)
                     /\ IF SettleEntriesThere(st, next)
                        THEN /\ pc' = At("settle", "connect")
                             /\ loc' = BeginSettleLoc(loc, next)
                             /\ UNCHANGED result
                        ELSE /\ pc' = At("main", "done")
                             /\ loc' = LocInit
                             /\ result' = [status |-> "panic",
                                           err |-> "watchonly coins expected"]
                ELSE \E disk_ok \in BOOLEAN : save_and_reset_swap_round(disk_ok)

\* ------------------------------------------------- the per-attempt timeouts
\* req_sigs_for_sender, the timeout arm of its select!: the attempt is
\* dropped at whatever suspension point it is.
req_sigs_for_sender_timeout ==
    /\ pc.f = "rss" /\ pc.s # "sleep"
    /\ IF loc.rss_ii <= first_connect_attempts
       THEN /\ pc' = At("rss", "connect")
            /\ loc' = StartAttempt("rss", loc)
            /\ UNCHANGED <<offerbook, result>>
       ELSE RssReturnErr("Protocol: Timed out of request_senders_contract_tx_signatures attempt")
    /\ sent' = NoMessage
    /\ UNCHANGED <<ongoing_swap_state, wallet, chain, hist>>

\* req_sigs_for_recvr, the timeout arm of its select!.
req_sigs_for_recvr_timeout ==
    /\ pc.f = "rsr" /\ pc.s # "sleep"
    /\ IF loc.rsr_ii <= reconnect_attempts
       THEN /\ pc' = At("rsr", "connect")
            /\ loc' = StartAttempt("rsr", loc)
            /\ UNCHANGED <<offerbook, result>>
       ELSE RsrReturnErr("Protocol: Timed out of request_receivers_contract_tx_signatures attempt")
    /\ sent' = NoMessage
    /\ UNCHANGED <<ongoing_swap_state, wallet, chain, hist>>

\* An attempt of send_sigs_init_next_hop_once is running, be it in a nested
\* request to the next or the previous Maker.
InHopAttempt ==
    \/ pc.f = "hop" /\ pc.s # "sleep"
    \/ pc.f = "rss" /\ loc.rss_ctx = "hop"
    \/ pc.f = "rsr" /\ loc.rsr_ctx = "hop"

\* send_sigs_init_next_hop, the timeout arm of its select!.
send_sigs_init_next_hop_timeout ==
    /\ InHopAttempt
    /\ IF loc.hop_ii <= reconnect_attempts
       THEN /\ pc' = At("hop", "connect")
            /\ loc' = StartAttempt("hop", DropHopAttempt(loc))
            /\ UNCHANGED <<offerbook, result>>
       ELSE RoundErr("Protocol: Timed out of exchange_signatures_and_find_next_maker attempt")
    /\ sent' = NoMessage
    /\ hist' = [hist EXCEPT !.pof_reply = NoReply, !.receiver_sigs = {}]
    /\ UNCHANGED <<ongoing_swap_state, wallet, chain>>

\* settle_all_swaps, the timeout arm of its select!.
settle_timeout ==
    /\ pc.f = "settle" /\ pc.s # "sleep"
    /\ IF loc.settle_ii <= reconnect_attempts
       THEN /\ pc' = At("settle", "connect")
            /\ loc' = StartAttempt("settle", [loc EXCEPT !.privkeys_reply = NoKey,
                                                         !.handover = NoKey])
            /\ UNCHANGED <<offerbook, result>>
       ELSE RoundErr("Protocol: Timed out of settle_one_coinswap attempt")
    /\ sent' = NoMessage
    /\ UNCHANGED <<ongoing_swap_state, wallet, chain, hist>>

\* ------------------------------------------------------------ specification
Next ==
    \/ send_coinswap
    \/ init_first_hop_choose
    \/ init_first_hop_broadcast
    \/ \E f \in Frames : connect(f)
    \/ \E f \in Frames : handshake_maker_send(f)
    \/ \E f \in Frames : handshake_maker_read(f)
    \/ \E f \in Frames : sleep_done(f)
    \/ req_sigs_for_sender_once_send
    \/ req_sigs_for_sender_once_read
    \/ req_sigs_for_sender_timeout
    \/ req_sigs_for_recvr_once_send
    \/ req_sigs_for_recvr_once_read
    \/ req_sigs_for_recvr_timeout
    \/ send_proof_of_funding
    \/ read_proof_of_funding_reply
    \/ send_contract_sigs_for_recvr_and_sender
    \/ send_sigs_init_next_hop_timeout
    \/ watch_for_txs
    \/ \E i \in 1..MaxTxCount : chain_confirm(i)
    \/ \E e \in 0..MaxMakerCount : broadcast_contract(e)
    \/ send_hash_preimage
    \/ read_privkey_handover
    \/ send_privkey_handover
    \/ settle_timeout

Spec == Init /\ [][Next]_vars

\* The steps of the Taker's task, the chain's own steps left out.
TakerNext ==
    /\ Next
    /\ ~ \E i \in 1..MaxTxCount : chain_confirm(i)
    /\ ~ \E e \in 0..MaxMakerCount : broadcast_contract(e)

\* The executor keeps polling the task, and every await of a socket is
\* raced against a sleep by select!, so the task always takes its next step.
LiveSpec == Spec /\ WF_vars(TakerNext)

\* A poll of watch_for_txs in which the chain client answers: a transaction
\* enters txid_tx_map or the confirmed funding is returned.
watch_progress == watch_for_txs /\ (result' = result \/ hist' # hist)

\* The chain client eventually answers the watcher's lookups, and every
\* watched funding transaction keeps gaining confirmations.
WatchSpec ==
    Spec /\ WF_vars(watch_progress) /\ \A i \in 1..MaxTxCount : WF_vars(chain_confirm(i))


\* =================================================================== claims
\* A step writes a message to a socket.
Written == sent' # sent /\ sent'.type # "none"

\* C1: no HashPreimage is sent to any Maker before all maker_count hops are
\* completed: when one is sent, the watcher has returned the confirmed
\* funding of init_first_hop and of every hop 0..maker_count-1, every hop's
\* exchange ended with its RespContractSigsForRecvrAndSender, and the
\* receiver signatures for the incoming swapcoins have been obtained.
C1_NoPreimageBeforeAllHops ==
    sent.type = "HashPreimage" =>
        /\ hist.confirmed = hist.maker_count + 1
        /\ hist.incoming_sigs
        /\ \A h \in 0..(hist.maker_count - 1) :
              \E i \in 1..Len(hist.exchanged) : hist.exchanged[i].maker_index = h

\* A HashPreimage was sent in a round with a watch-only hop.
C1_Witness ==
    /\ hist.maker_count > 2
    /\ sent.type = "HashPreimage" /\ sent.index = 0

AcceptedFirstHopSigs(m) == { r \in hist.sender_sigs : r.edge = 0 /\ r.to = m }

C5_TakerPosition ==
    /\ (loc.hop_ii > 0 \/ loc.watch_ctx = "hop") =>
          ongoing_swap_state.taker_position =
              IF loc.maker_index = 0 THEN "FirstPeer"
              ELSE IF loc.maker_index = hist.maker_count - 1 THEN "LastPeer"
              ELSE "WatchOnly"
    /\ hist.maker_count = 2 => ongoing_swap_state.taker_position # "WatchOnly"

\* The exchange of a watch-only hop is running.
C5_Witness ==
    /\ pc = At("hop", "pof_read")
    /\ loc.maker_index = 1 /\ hist.maker_count = 3
    /\ ongoing_swap_state.taker_position = "WatchOnly"

\* C6: the locktime of hop h is refund_locktime + refund_locktime_step *
\* (maker_count - h - 1), that of the hop-0 funding contracts is
\* refund_locktime + refund_locktime_step * maker_count, so that along the
\* route every contract's locktime is the previous one's less exactly
\* refund_locktime_step, as plain integers (nothing wraps around in u16).
C6_LocktimeSteps ==
    LET st == ongoing_swap_state
        n == hist.maker_count
        \* the locktime of the contracts of funding edge e, e = 0 being the
        \* Taker's own funding and e = h + 1 the one hop h sets up
        locktime(e) == REFUND_LOCKTIME + REFUND_LOCKTIME_STEP * (n - e)
    IN /\ loc.hop_ii > 0 => loc.maker_refund_locktime = locktime(loc.maker_index + 1)
       /\ \A i \in 1..Len(st.outgoing_swapcoins) :
             st.outgoing_swapcoins[i].locktime = locktime(0)
       /\ \A i \in 1..Len(st.watchonly_swapcoins) :
             st.watchonly_swapcoins[i].locktime = locktime(st.watchonly_swapcoins[i].edge)
       /\ \A i \in 1..Len(st.incoming_swapcoins) :
             st.incoming_swapcoins[i].locktime = locktime(n)
       /\ \A i \in 1..Len(st.peer_infos) :
             /\ st.peer_infos[i].contract_reedemscripts.locktime = locktime(i - 1)
             /\ i > 1 =>
                   /\ st.peer_infos[i].contract_reedemscripts.locktime
                        = st.peer_infos[i - 1].contract_reedemscripts.locktime
                            - REFUND_LOCKTIME_STEP
                   /\ st.peer_infos[i].contract_reedemscripts.locktime
                        < st.peer_infos[i - 1].contract_reedemscripts.locktime
       /\ sent.type = "ReqContractSigsForSender" => sent.locktime = locktime(sent.edge)
       /\ sent.type = "ProofOfFunding" =>
             /\ sent.next_locktime = locktime(sent.maker_index + 1)
             /\ sent.contract_redeemscript.locktime = locktime(sent.maker_index)

\* All the contracts of a route with a watch-only hop are set up.
C6_Witness ==
    /\ hist.maker_count = 3
    /\ Len(ongoing_swap_state.peer_infos) = 4
    /\ Len(ongoing_swap_state.incoming_swapcoins) = 1

\* C7: the preimage is drawn once in a round.  From the start of hop 0 to
\* the end of settlement no step changes active_preimage, and the hashvalue
\* of the hop-0 contracts, the hashvalue of every later hop's contract
\* redeemscripts and the preimage of every HashPreimage are those of the
\* value drawn when the round began.
C7_OnePreimage ==
    [][ LET st == ongoing_swap_state'
            hashvalue == Hash160(hist'.preimage)
        IN /\ (pc # At("main", "start") /\ result'.status # "ok") =>
                 /\ st.active_preimage = ongoing_swap_state.active_preimage
                 /\ st.active_preimage = hist'.preimage
                 /\ hist'.preimage = hist.preimage
           /\ \A i \in 1..Len(st.outgoing_swapcoins) :
                 st.outgoing_swapcoins[i].hashvalue = hashvalue
           /\ \A i \in 1..Len(st.watchonly_swapcoins) :
                 st.watchonly_swapcoins[i].hashvalue = hashvalue
           /\ \A i \in 1..Len(st.incoming_swapcoins) :
                 /\ st.incoming_swapcoins[i].hashvalue = hashvalue
                 /\ st.incoming_swapcoins[i].hash_preimage = hist'.preimage
           /\ \A i \in 1..Len(st.peer_infos) :
                 st.peer_infos[i].contract_reedemscripts.hashvalue = hashvalue
           /\ sent'.type = "ReqContractSigsForSender" => sent'.hashvalue = hashvalue
           /\ sent'.type = "ProofOfFunding" =>
                 sent'.contract_redeemscript.hashvalue = hashvalue
           /\ sent'.type = "HashPreimage" => sent'.preimage = hist'.preimage
      ]_vars

\* The second Maker of a route is sent the preimage.
C7_Witness ==
    /\ sent.type = "HashPreimage" /\ sent.index = 1
    /\ sent.preimage \in Preimages
    /\ Len(ongoing_swap_state.peer_infos) = hist.maker_count + 1

\* C8: no two hops are in flight at once.  The funding of a hop enters
\* funding_txs only when the watcher found every one of its transactions
\* with the confirmations required and after the hop's exchange was
\* completed, and a ProofOfFunding for hop h + 1 is written only when the
\* exchanges of the hops 0..h, and no other, were completed, each once, and
\* the funding hop h produced was confirmed and is the last of funding_txs.
C8_HopsInSequence ==
    [][ LET st == ongoing_swap_state
            st2 == ongoing_swap_state'
            required == IF st.taker_position = "LastPeer"
                        THEN st.swap_params.required_confirms
                        ELSE Offer(Last(st.peer_infos).peer).required_confirms
            k == sent'.maker_index
        IN /\ Len(st2.funding_txs) > Len(st.funding_txs) =>
                 /\ pc = At("main", "watch")
                 /\ Len(st2.funding_txs) = Len(st.funding_txs) + 1
                 /\ hist'.confirmed = Len(st2.funding_txs)
                 /\ \A i \in funding_txids : chain.confs[i] >= required
                 /\ loc.watch_ctx = "hop" =>
                       /\ Len(hist.exchanged) = loc.maker_index + 1
                       /\ Last(hist.exchanged).maker_index = loc.maker_index
                       /\ Last(st2.funding_txs).edge = loc.maker_index + 1
           /\ (Written /\ sent'.type = "ProofOfFunding") =>
                 /\ Len(hist'.exchanged) = k
                 /\ \A i \in 1..k : hist'.exchanged[i].maker_index = i - 1
                 /\ hist'.confirmed = k + 1
                 /\ Len(st2.funding_txs) = k + 1
                 /\ Last(st2.funding_txs).edge = k
                 /\ sent'.funding_edge = k
      ]_vars

\* The ProofOfFunding of the third hop is in flight.
C8_Witness ==
    /\ sent.type = "ProofOfFunding" /\ sent.maker_index = 2
    /\ Len(ongoing_swap_state.funding_txs) = 3

\* C9: settlement goes through the Makers in route order.  A HashPreimage
\* for index i is in flight only when the settle exchanges of the indices
\* 0..i-1, and no other, were completed, each once and in that order, and
\* it goes to the Maker the exchange of hop i was made with; the round ends
\* Ok with exactly one completed exchange per Maker, in route order; and
\* once the last Maker's exchange is completed nothing is left to settle
\* (the last peer info, the Taker's own, is no target).
C9_SettleInRouteOrder ==
    LET n == hist.maker_count
        InOrder(k) == /\ Len(hist.settled) = k
                      /\ \A j \in 1..k :
                            /\ hist.settled[j].index = j - 1
                            /\ hist.settled[j].to = hist.exchanged[j].to
    IN /\ sent.type = "HashPreimage" =>
             /\ sent.index < n
             /\ InOrder(sent.index)
             /\ Len(hist.exchanged) = n
             /\ sent.to = hist.exchanged[sent.index + 1].to
             /\ sent.to = ongoing_swap_state.peer_infos[sent.index + 1].peer
             /\ sent.index + 1 < Len(ongoing_swap_state.peer_infos)
       /\ pc.f = "settle" => loc.index < n /\ Len(hist.settled) = loc.index
       /\ result.status = "ok" => InOrder(n)
       /\ (n >= 2 /\ Len(hist.settled) = n) =>
             /\ pc = At("main", "done")
             /\ result.status = "ok" \/ result.err = "Disk: save_to_disk"

\* A round over three Makers ended Ok.
C9_Witness ==
    /\ result.status = "ok"
    /\ hist.maker_count = 3
    /\ Len(hist.settled) = 3

\* C10: in every attempt of a settle step, the keys of the Taker's
\* PrivKeyHandover to the Maker of index i >= 1 are the keys Maker i-1
\* revealed in its completed exchange, and those to Maker 0 are the
\* Taker's own keys of the outgoing swapcoins (funding edge 0).
C10_HandoverCarriesPreviousKeys ==
    sent.type = "PrivKeyHandover" =>
        IF sent.index = 0
        THEN sent.key.by = 0 /\ sent.key.edge = 0 /\ sent.key.ok
        ELSE /\ sent.key = hist.settled[sent.index].key
             /\ sent.key.by = hist.exchanged[sent.index].to
             /\ sent.key.edge = sent.index

\* C11: in every HashPreimage of settlement, for the Maker of index i, the
\* senders_multisig_redeemscripts are those of the funding Maker i received
\* (funding edge i, paid to Maker i) and the receivers_multisig_redeemscripts
\* are those of the funding Maker i sent (funding edge i + 1, paid to the
\* next peer of the route: Maker i + 1, or the Taker, written 0, after the
\* last Maker).
C11_RedeemscriptsOfTheHop ==
    sent.type = "HashPreimage" =>
        LET i == sent.index
            route == ongoing_swap_state.peer_infos
        IN /\ sent.senders_edge = i
           /\ sent.senders_to = route[i + 1].peer
           /\ sent.receivers_edge = i + 1
           /\ sent.receivers_to = IF i = hist.maker_count - 1
                                  THEN 0 ELSE route[i + 2].peer

\* C12: when, at the last Maker's settle step, the revealed key does not
\* correspond to the incoming swapcoins, the attempt fails with
\* Protocol("wrong privkey") (the envelope re-attempts or returns that very
\* error), and neither that step nor any later one changes or saves the
\* Wallet, whose incoming swapcoins stay without other_privkey; the round
\* does not end Ok.
C12_WrongPrivkeyNotPersisted ==
    [][ LET before == hist.last_peer_handover
            h == hist'.last_peer_handover
            Corresponds(k) == k.ok /\ k.edge = hist.maker_count
        IN /\ (h # before /\ ~Corresponds(h.key)) =>
                 /\ h.verdict = "Protocol: wrong privkey"
                 /\ wallet' = wallet
                 /\ \/ pc' = At("settle", "sleep") /\ result' = result
                    \/ /\ pc' = At("main", "done")
                       /\ result' = [status |-> "err", err |-> "Protocol: wrong privkey"]
           /\ (before # NoHandover /\ ~Corresponds(before.key)) =>
                 /\ wallet' = wallet
                 /\ result'.status # "ok"
                 /\ \A i \in 1..Len(wallet'.incoming_swapcoins) :
                       wallet'.incoming_swapcoins[i].privkey = NoKey
      ]_vars

\* The last Maker's wrong key was refused and the envelope is about to
\* re-attempt the step.
C12_Witness ==
    /\ hist.last_peer_handover.verdict = "Protocol: wrong privkey"
    /\ ~hist.last_peer_handover.key.ok
    /\ pc = At("settle", "sleep")
    /\ ongoing_swap_state.taker_position = "LastPeer"

\* C13: when send_coinswap has returned Ok, the incoming swapcoins of the
\* round in the Wallet have other_privkey populated (with the last Maker's
\* key for their funding edge) and the swap state is the empty default; and
\* the swap state is cleared only in a step that has updated and saved the
\* Wallet.
C13_SavedThenCleared ==
    [][ LET Populated(w) ==
              /\ Len(w.incoming_swapcoins) >= 1
              /\ \A i \in 1..Len(w.incoming_swapcoins) :
                    /\ w.incoming_swapcoins[i].edge = hist.maker_count
                    /\ w.incoming_swapcoins[i].privkey # NoKey
                    /\ w.incoming_swapcoins[i].privkey.ok
                    /\ w.incoming_swapcoins[i].privkey.edge = hist.maker_count
        IN /\ result'.status = "ok" =>
                 /\ Populated(wallet')
                 /\ ongoing_swap_state' = DefaultSwapState
                 /\ ongoing_swap_state'.peer_infos = <<>>
                 /\ ongoing_swap_state'.funding_txs = <<>>
                 /\ ongoing_swap_state'.outgoing_swapcoins = <<>>
                 /\ ongoing_swap_state'.watchonly_swapcoins = <<>>
                 /\ ongoing_swap_state'.incoming_swapcoins = <<>>
           /\ (ongoing_swap_state # DefaultSwapState
                 /\ ongoing_swap_state' = DefaultSwapState) =>
                 /\ Populated(wallet')
                 /\ wallet'.saves = wallet.saves + 1
                 /\ result'.status = "ok"
      ]_vars

\* A round over three Makers has returned Ok.
C13_Witness ==
    /\ result.status = "ok"
    /\ hist.maker_count = 3
    /\ ongoing_swap_state = DefaultSwapState
    /\ Len(wallet.incoming_swapcoins) = 1

\* C14: counting init_first_hop as hop 0 and the turn of send_coinswap's loop
\* for maker_index k as hop k + 1, peer_infos has h + 1 entries once hop h
\* has completed (its funding is confirmed) and until the next hop pushes its
\* entry, which it does before its own confirmation wait; after the final hop
\* it has maker_count + 1 entries, the first maker_count holding the keys of
\* the Makers of the route and the last one the Taker's own keys.
C14_PeerInfosLength ==
    (result.status = "running" /\ pc # At("main", "start")) =>
        LET infos == ongoing_swap_state.peer_infos
            pushed_unconfirmed == pc \in {At("main", "ifh_broadcast"), At("main", "watch")}
        IN /\ Len(infos) = hist.confirmed + IF pushed_unconfirmed THEN 1 ELSE 0
           /\ pc.f = "settle" =>
                 /\ Len(infos) = hist.maker_count + 1
                 /\ infos[Len(infos)].multisig_pubkeys = 0
                 /\ \A i \in 1..hist.maker_count :
                       infos[i].multisig_pubkeys = infos[i].peer /\ infos[i].peer # 0

\* The final hop of a three-Maker route has completed: four entries, the
\* trailing one with the Taker's keys.
C14_Witness ==
    /\ pc.f = "settle"
    /\ result.status = "running"
    /\ hist.maker_count = 3
    /\ Len(ongoing_swap_state.peer_infos) = 4
    /\ ongoing_swap_state.peer_infos[4].multisig_pubkeys = 0

\* C15: whenever no hop attempt is under way, watchonly_swapcoins has one
\* entry per funding edge between two Makers that the committed hops have set
\* up (none after init_first_hop, one more for every hop whose next peer is a
\* Maker, maker_count - 1 at the end), whatever attempts failed or were
\* dropped on the way, and each entry has tx_count swapcoins.
C15_WatchonlyPerCommittedHop ==
    (result.status = "running" /\ pc.f \in {"main", "settle"} /\ pc # At("main", "start")) =>
        LET st == ongoing_swap_state
            hops_committed == Len(st.peer_infos)
            Min2(a, b) == IF a < b THEN a ELSE b
        IN /\ Len(st.watchonly_swapcoins) =
                 IF hops_committed = 0 THEN 0
                 ELSE Min2(hops_committed, hist.maker_count) - 1
           /\ \A i \in 1..Len(st.watchonly_swapcoins) :
                 st.watchonly_swapcoins[i].n = st.swap_params.tx_count

\* C16: in every reachable state good_makers and bad_makers are disjoint and
\* both are subsets of all_makers, whatever first-hop selections, next-Maker
\* selections, failures and re-attempts led to the state.
C16_GoodBadDisjoint ==
    /\ offerbook.good_makers \cap offerbook.bad_makers = {}
    /\ offerbook.good_makers \subseteq offerbook.all_makers
    /\ offerbook.bad_makers \subseteq offerbook.all_makers

\* After failed selections and a re-attempted hop: two Makers are good and
\* at least one is bad.
C16_Witness ==
    /\ Cardinality(offerbook.good_makers) = 2
    /\ Cardinality(offerbook.bad_makers) >= 1
    /\ ongoing_swap_state.taker_position = "WatchOnly"
    /\ pc.f = "hop"
    /\ loc.hop_ii >= 2

\* C17: every offer choose_next_maker returns, for the first hop or as the
\* next Maker of a hop, is in all_makers and in neither good_makers nor
\* bad_makers, and its range satisfies min_size < send_amount < max_size
\* strictly; the offer is a function of the OfferBook and send_amount alone:
\* the first matching untried offer in the order of the set.
C17_UntriedStrictlyInRange ==
    [][ LET amount == ongoing_swap_state.swap_params.send_amount
            Returned(m) ==
                /\ m \in offerbook.all_makers
                /\ m \notin offerbook.good_makers
                /\ m \notin offerbook.bad_makers
                /\ Offer(m).min_size < amount
                /\ amount < Offer(m).max_size
                /\ \A o \in get_all_untried(offerbook) :
                      (Offer(o).min_size < amount /\ amount < Offer(o).max_size) => m <= o
        IN /\ (pc = At("main", "ifh_choose") /\ pc' = At("rss", "connect"))
                => Returned(loc'.maker)
           /\ (/\ pc = At("hop", "pof_send")
               /\ pc' = At("hop", "pof_read")
               /\ ongoing_swap_state.taker_position # "LastPeer")
                => Returned(loc'.next_maker)
      ]_vars

\* Offer 3 was returned as the next Maker while the untried offer 2, whose
\* max_size equals send_amount, precedes it in the set, and the untried
\* offer 5, whose min_size equals send_amount, is never returned at all.
C17_Witness ==
    /\ pc = At("hop", "pof_read")
    /\ loc.next_maker = 3
    /\ {2, 5} \subseteq get_all_untried(offerbook)
    /\ Offer(2).max_size = ongoing_swap_state.swap_params.send_amount
    /\ Offer(5).min_size = ongoing_swap_state.swap_params.send_amount
    /\ offerbook.good_makers = {1}

\* C18: with send_amount = 0 the first thing send_coinswap does after storing
\* the swap parameters is to return the Protocol error "Coinswap send amount
\* not set!!": the Wallet has created and saved nothing, no message was sent
\* to a Maker, nothing was broadcast, and the OfferBook is as it was.
C18_SendAmountNotSet ==
    [][ (pc = At("main", "ifh_choose") /\ ongoing_swap_state.swap_params.send_amount = 0) =>
          /\ pc' = At("main", "done")
          /\ result' = [status |-> "err", err |-> "Protocol: Coinswap send amount not set!!"]
          /\ loc.funding_txs = 0 /\ loc'.funding_txs = 0
          /\ wallet' = wallet
          /\ wallet.outgoing_swapcoins = <<>> /\ wallet.saves = 0
          /\ sent = NoMessage /\ sent' = NoMessage
          /\ hist'.sender_sigs = {} /\ hist'.rejected_sender_sigs = {}
          /\ chain' = chain /\ chain.submitted = 0
          /\ offerbook' = offerbook
          /\ offerbook.good_makers = {} /\ offerbook.bad_makers = {}
      ]_vars

\* The round with send_amount = 0 and a full OfferBook has failed.
C18_Witness ==
    /\ pc = At("main", "done")
    /\ ongoing_swap_state.swap_params.send_amount = 0
    /\ result.err = "Protocol: Coinswap send amount not set!!"
    /\ offerbook.all_makers = OfferIds

\* C19: the selection loop of init_first_hop terminates.  A first Maker whose
\* sender-signature request failed is put in bad_makers and the loop chooses
\* again; what it chooses is never a bad Maker; when no untried matching
\* offer is left (or the OfferBook is empty) init_first_hop returns the
\* "Could not find suitable maker" error; and from every entry of the loop
\* the round gets to the commit of the first hop or to its end.
C19_FirstHopTerminates ==
    /\ [][ LET amount == ongoing_swap_state.swap_params.send_amount IN
           /\ (pc.f = "rss" /\ loc.rss_ctx = "ifh" /\ pc' = At("main", "ifh_choose")) =>
                 /\ loc.maker \notin offerbook.bad_makers
                 /\ offerbook'.bad_makers = offerbook.bad_makers \cup {loc.maker}
                 /\ result' = result
           /\ (pc = At("main", "ifh_choose") /\ pc' = At("rss", "connect")) =>
                 /\ loc'.maker \notin offerbook.bad_makers
                 /\ loc'.maker \in MatchingUntried(offerbook, amount)
           /\ (/\ pc = At("main", "ifh_choose")
               /\ amount # 0
               /\ MatchingUntried(offerbook, amount) = {}) =>
                 /\ pc' = At("main", "done")
                 /\ result' = [status |-> "err",
                               err |-> "Protocol: Could not find suitable maker"]
       ]_vars
    /\ (pc = At("main", "ifh_choose")) ~>
          (pc \in {At("main", "ifh_broadcast"), At("main", "done")})

\* Every matching Maker failed in turn and the first hop gave up.
C19_Witness ==
    /\ pc = At("main", "done")
    /\ hist.confirmed = 0
    /\ offerbook.bad_makers = {1, 3, 4}
    /\ offerbook.good_makers = {}
    /\ result.err = "Protocol: Could not find suitable maker"

\* C20: a retry envelope never starts more attempts than its configured
\* maximum, attempts ended by an error and attempts ended by the per-attempt
\* timeout counted alike: the attempt counter ii of req_sigs_for_sender stays
\* within first_connect_attempts and the one of req_sigs_for_recvr within
\* reconnect_attempts.
C20_AttemptsWithinMaximum ==
    /\ loc.rss_ii <= first_connect_attempts
    /\ loc.rsr_ii <= reconnect_attempts

\* The errors the timeout arms of the four envelopes return.
TimedOutErrors ==
    { "Protocol: Timed out of request_senders_contract_tx_signatures attempt",
      "Protocol: Timed out of request_receivers_contract_tx_signatures attempt",
      "Protocol: Timed out of exchange_signatures_and_find_next_maker attempt",
      "Protocol: Timed out of settle_one_coinswap attempt" }

\* A step in which an envelope gives up and its error ends the round.
EnvelopeGaveUp == pc.f \in Frames /\ result.status = "running" /\ result'.status = "err"

\* C21 as stated: whenever a retry envelope gives up because its attempt
\* limit is reached, after an error as after a per-attempt timeout, it fails
\* with a Protocol "Timed out of ..." error.
C21_ExhaustionTimedOut ==
    [][ EnvelopeGaveUp => result'.err \in TimedOutErrors ]_vars

\* C21 amended: an envelope gives up only with its attempts used up; when the
\* last attempt was dropped by the per-attempt timeout the envelope fails
\* with its own Protocol "Timed out of ..." error, and when the last attempt
\* ended in an error the envelope returns that error, which is none of the
\* timed-out errors.
C21_ExhaustionErrors ==
    [][ EnvelopeGaveUp =>
          /\ pc.f = "settle" => loc.settle_ii = reconnect_attempts + 1
          /\ pc.f = "hop" => loc.hop_ii = reconnect_attempts + 1
          /\ pc.f = "rss" => send_sigs_init_next_hop_timeout
          /\ (pc.f = "rsr" /\ ~send_sigs_init_next_hop_timeout) =>
                loc.rsr_ii = reconnect_attempts + 1
          /\ InHopAttempt => loc.hop_ii = reconnect_attempts + 1
          /\ send_sigs_init_next_hop_timeout =>
                result'.err = "Protocol: Timed out of exchange_signatures_and_find_next_maker attempt"
          /\ settle_timeout =>
                result'.err = "Protocol: Timed out of settle_one_coinswap attempt"
          /\ req_sigs_for_recvr_timeout =>
                result'.err = "Protocol: Timed out of request_receivers_contract_tx_signatures attempt"
          /\ ~(\/ send_sigs_init_next_hop_timeout
               \/ settle_timeout
               \/ req_sigs_for_recvr_timeout) =>
                result'.err \notin TimedOutErrors \cup {"none"}
      ]_vars

\* The hop envelope gave up after a failed connect and the settle envelope
\* can give up after an error just as well: a round ended with a Network
\* error after the first hop was confirmed.
C21_Witness ==
    /\ pc = At("main", "done")
    /\ result = [status |-> "err", err |-> "Network: connect"]
    /\ hist.confirmed >= 1

\* C22: only the sender-signature request of init_first_hop, made before any
\* funding is broadcast, runs under the first-connect envelope: it gives up
\* on its candidate with first_connect_attempts used up.  The
\* sender-signature request to a newly selected next Maker, made after the
\* hop-0 funding was broadcast, runs under the reconnect envelope: it gives
\* up on its candidate only with reconnect_attempts used up.
C22_EnvelopeOfSenderSigRequest ==
    [][ (pc.f = "rss" /\ offerbook'.bad_makers # offerbook.bad_makers) =>
          /\ loc.rss_ctx = "ifh" =>
                (chain.submitted = 0 /\ loc.rss_ii > first_connect_attempts)
          /\ loc.rss_ctx = "hop" =>
                (chain.submitted > 0 /\ loc.rss_ii > reconnect_attempts)
      ]_vars

\* The Makers that signed as next Maker in an attempt that was dropped
\* afterwards: recorded in good_makers, yet no peer of the route.
SignedThenDropped ==
    { m \in offerbook.good_makers :
        \A i \in 1..Len(ongoing_swap_state.peer_infos) :
           ongoing_swap_state.peer_infos[i].peer # m }

\* C23: a hop whose earlier attempts failed or were dropped by the
\* per-attempt timeout still succeeds once the Makers answer correctly: no
\* attempt fails for want of a next Maker while a Maker that answered
\* correctly in a dropped attempt stands unused.
C23_RetriedHopRecovers ==
    (/\ pc = At("hop", "pof_send")
     /\ ongoing_swap_state.taker_position # "LastPeer"
     /\ choose_next_maker(offerbook, ongoing_swap_state.swap_params.send_amount) = 0)
        => SignedThenDropped = {}

\* C24: when the Maker asked answers ProofOfFunding with senders contracts
\* whose summed funding_amount is not the calculated next amount, the attempt
\* fails with Protocol "next_amount incorrect" and the Maker is recorded in
\* bad_makers.
C24_WrongNextAmountMarksBad ==
    [][ (/\ pc = At("hop", "pof_read")
         /\ pc' # pc
         /\ hist'.pof_reply.verdict = "Protocol: next_amount incorrect") =>
          /\ pc' \in {At("hop", "sleep"), At("main", "done")}
          /\ pc' = At("main", "done") =>
                result' = [status |-> "err", err |-> "Protocol: next_amount incorrect"]
          /\ Peer("hop") \in offerbook'.bad_makers
      ]_vars

\* The Protocol errors by which an answer to ProofOfFunding shows a
\* misbehaving peer: tag mismatch, count mismatch, amount-conservation
\* failure, bad contract tx.
PofProtocolMismatches ==
    { "Protocol: expected method signsendersandreceiverscontracttxes",
      "Protocol: wrong number of receivers contracts tx from maker",
      "Protocol: wrong number of senders contract txes from maker",
      "Protocol: next_amount incorrect",
      "Protocol: bad contract tx" }

\* C25: an attempt that fails with a Protocol error caused by a misbehaving
\* peer ends its envelope with that error and no further attempt is started:
\* so for a mismatching answer to ProofOfFunding in the hop envelope and for
\* a wrong private key of the last Maker in the settle envelope.
C25_ProtocolErrorEndsEnvelope ==
    [][ /\ (/\ pc = At("hop", "pof_read")
            /\ pc' # pc
            /\ hist'.pof_reply.verdict \in PofProtocolMismatches) =>
              /\ pc' = At("main", "done")
              /\ result' = [status |-> "err", err |-> hist'.pof_reply.verdict]
        /\ (/\ pc.f = "settle"
            /\ hist'.last_peer_handover # hist.last_peer_handover
            /\ hist'.last_peer_handover.verdict = "Protocol: wrong privkey") =>
              /\ pc' = At("main", "done")
              /\ result' = [status |-> "err", err |-> "Protocol: wrong privkey"]
      ]_vars

\* The chain client failed in the breach check or in the merkle-proof fetch,
\* or a watched contract transaction was broadcast.
WatcherDisturbed ==
    \/ result.err \in {"Rpc: check_for_broadcasted_contract_txes", "Rpc: get_tx_out_proof"}
    \/ chain.contracts # {}

C27_OnlyCurrentMakerSession ==
    (/\ ongoing_swap_state.taker_position = "LastPeer"
     /\ InHopAttempt
     /\ pc.s \notin {"connect", "sleep"})
        => (pc.f = "hop" /\ Peer(pc.f) = Last(ongoing_swap_state.peer_infos).peer)

\* C27 amended: at the last hop the Taker asks no next Maker for sender
\* signatures, names itself as next peer in ProofOfFunding and puts tx_count
\* signatures of its own in the response; besides the session to the
\* current Maker it opens one other, to the previous Maker, for the receiver
\* signatures.
C27_LastPeerSelfSigns ==
    (ongoing_swap_state.taker_position = "LastPeer" /\ InHopAttempt) =>
        LET infos == ongoing_swap_state.peer_infos IN
        /\ pc.f \in {"hop", "rsr"}
        /\ pc.f = "rsr" =>
              /\ Peer("rsr") = infos[Len(infos) - 1].peer
              /\ Peer("rsr") # Last(infos).peer
              /\ loc.senders_sigs = ongoing_swap_state.swap_params.tx_count
        /\ sent.type = "ProofOfFunding" => sent.next_peer = 0
        /\ pc = At("hop", "resp_send") =>
              loc.senders_sigs = ongoing_swap_state.swap_params.tx_count

\* At the last hop the session to the previous Maker is open, the Taker's
\* own sender signatures in hand.
C27_Witness ==
    /\ ongoing_swap_state.taker_position = "LastPeer"
    /\ pc = At("rsr", "hello")
    /\ loc.rsr_ctx = "hop"
    /\ hist.maker_count = 3
    /\ loc.senders_sigs = 2

\* C28: during the confirmation wait of init_first_hop the watcher has no
\* contract transaction to check for broadcast, so it cannot return None and
\* the unwrap of its result cannot fail.
C28_FirstHopWatcherWatchesNothing ==
    /\ (pc = At("main", "watch") /\ loc.watch_ctx = "ifh") =>
          contracts_to_watch(ongoing_swap_state) = {}
    /\ result # [status |-> "panic", err |-> "unwrap on None"]

\* The Maker the funding being watched pays to: the first Maker for the
\* Taker's own funding, else the Maker of the last watch-only swapcoins.
FundingCommitsTo ==
    IF loc.watch_ctx = "ifh" THEN ongoing_swap_state.outgoing_swapcoins[1].to
    ELSE Last(ongoing_swap_state.watchonly_swapcoins).to

\* C29: the watcher puts a funding tx in txid_tx_map only when the chain
\* reports at least the threshold of confirmations, the threshold being
\* swap_params.required_confirms at the last hop and otherwise the
\* required_confirms of the offer of the Maker the funding commits to, which
\* is the last peer_infos entry; it returns the confirmed funding only when
\* every txid has passed the threshold; and no txid ever leaves the map.
C29_PromotionThreshold ==
    [][ pc = At("main", "watch") =>
          LET st == ongoing_swap_state
              threshold ==
                  IF st.taker_position = "LastPeer" THEN st.swap_params.required_confirms
                  ELSE Offer(FundingCommitsTo).required_confirms
          IN /\ st.taker_position # "LastPeer" => Last(st.peer_infos).peer = FundingCommitsTo
             /\ pc' = pc =>
                   /\ loc.txid_tx_map \subseteq loc'.txid_tx_map
                   /\ \A i \in loc'.txid_tx_map \ loc.txid_tx_map :
                         chain.confs[i] >= threshold
             /\ hist'.confirmed # hist.confirmed =>
                   \A i \in funding_txids :
                      i \in loc.txid_tx_map \/ chain.confs[i] >= threshold
      ]_vars

\* A funding of two transactions to a Maker that asks for two confirmations:
\* the first is in txid_tx_map, the second has one confirmation and is not.
C29_Witness ==
    /\ pc = At("main", "watch")
    /\ ongoing_swap_state.taker_position = "FirstPeer"
    /\ loc.watch_ctx = "hop"
    /\ Offer(Last(ongoing_swap_state.peer_infos).peer).required_confirms = 2
    /\ ongoing_swap_state.swap_params.required_confirms = 1
    /\ loc.txid_tx_map = {1}
    /\ chain.confs[2] = 1

\* C30: watch_for_txs returns an error only from the merkle-proof fetch,
\* after every txid is confirmed; a chain-client failure during a poll
\* (transaction lookup, mempool-entry lookup, breach check) is swallowed and
\* the loop goes on.
C30_PollFailuresSwallowed ==
    [][ (/\ pc = At("main", "watch")
         /\ hist'.confirmed = hist.confirmed
         /\ result'.status = "err") =>
          /\ result'.err = "Rpc: get_tx_out_proof"
          /\ \A i \in funding_txids :
                chain.confs[i] >= required_confirmations(ongoing_swap_state)
      ]_vars

\* C31: when the watcher returns Breach during the build phase the round is
\* aborted at once.  A turn of the watcher taken while a watched contract
\* transaction is visible and some awaited funding transaction stays
\* unconfirmed ends the task (unless the breach lookup itself failed):
\* nothing is appended to funding_txs and the swap state is left as it was,
\* not cleared; no message is written; and after the abort the task takes no
\* further step, so no Maker is written to and settlement never starts.
C31_BreachAbortsRound ==
    [][ /\ ( /\ pc = At("main", "watch")
              /\ contracts_broadcasted(ongoing_swap_state, chain) # {}
              /\ chain' = chain
              /\ result'.err # "Rpc: check_for_broadcasted_contract_txes" )
            => /\ result'.status = "panic"
               /\ result'.err \in {"unwrap on None", "ending"}
               /\ pc' = At("main", "done")
               /\ ongoing_swap_state' = ongoing_swap_state
               /\ ongoing_swap_state'.active_preimage # 0
               /\ wallet' = wallet
               /\ ~Written
        /\ result.status = "panic" => FALSE
      ]_vars

\* The watcher returned Breach in the second hop of the build loop: the
\* funding of init_first_hop and of hop 0 is in funding_txs, the round's
\* swap state is still there and no settlement has taken place.
C31_Witness ==
    /\ result = [status |-> "panic", err |-> "ending"]
    /\ Len(ongoing_swap_state.funding_txs) = 2
    /\ ongoing_swap_state.swap_params.maker_count = hist.maker_count
    /\ hist.settled = <<>>

\* C32: when an attempt of a reconnect envelope (the hop exchange, the
\* receiver-signature request, the settlement) is abandoned by the
\* per-attempt timeout, the next attempt starts only after the sleep between
\* attempts, as after an attempt that failed with an error: the attempt
\* counter of a running envelope only advances out of the sleep.
C32_TimeoutRetrySleeps ==
    [][ /\ (loc.hop_ii >= 1 /\ loc'.hop_ii = loc.hop_ii + 1) => pc = At("hop", "sleep")
        /\ (loc.rsr_ii >= 1 /\ loc'.rsr_ii = loc.rsr_ii + 1) => pc = At("rsr", "sleep")
        /\ (loc.settle_ii >= 1 /\ loc'.settle_ii = loc.settle_ii + 1)
              => pc = At("settle", "sleep")
      ]_vars

\* The attempt counter ii of the envelope at frame f.
ii_of(l, f) ==
    CASE f = "rss" -> l.rss_ii
      [] f = "rsr" -> l.rsr_ii
      [] f = "hop" -> l.hop_ii
      [] f = "settle" -> l.settle_ii

\* C33: in the reconnect envelopes (hop exchange, receiver-signature request,
\* settlement), after the k-th attempt ended in an error the Taker sleeps
\* reconnect_short_sleep_delay (10 s) when k is at most the transition and
\* reconnect_long_sleep_delay (60 s) when k is beyond it, and attempt k+1
\* starts when that sleep is over.
C33_SleepDelayRule ==
    [][ \A f \in {"hop", "rsr", "settle"} :
          /\ (pc' = At(f, "sleep") /\ pc # pc')
               => /\ ii_of(loc', f) = ii_of(loc, f)
                  /\ ii_of(loc, f) <= short_long_sleep_delay_transition
                        => loc'.sleep = 10
                  /\ ii_of(loc, f) > short_long_sleep_delay_transition
                        => loc'.sleep = 60
          /\ (pc = At(f, "sleep") /\ pc' # pc)
               => \/ /\ pc' = At(f, "connect")
                     /\ ii_of(loc', f) = ii_of(loc, f) + 1
                  \/ /\ f = "rsr" /\ loc.rsr_ctx = "hop"
                     /\ pc' \in {At("hop", "connect"), At("main", "done")}
      ]_vars

\* The settlement envelope sleeps the long delay: its attempt beyond the
\* transition has just failed with an error and another attempt is left.
C33_Witness ==
    /\ pc = At("settle", "sleep")
    /\ loc.settle_ii > short_long_sleep_delay_transition
    /\ loc.settle_ii <= reconnect_attempts
    /\ loc.sleep = RECONNECT_LONG_SLEEP_DELAY_SEC

\* C34: in init_first_hop the outgoing swapcoins, carrying the Maker's
\* contract signatures, are in the Wallet and the Wallet was saved to disk
\* before any funding transaction is submitted to the chain client; and the
\* confirmation watcher runs on them only after every funding transaction
\* was submitted.
C34_SavedBeforeBroadcast ==
    /\ chain.submitted > 0 =>
          /\ wallet.saves >= 1
          /\ Len(wallet.outgoing_swapcoins) = 1
          /\ wallet.outgoing_swapcoins[1].sig
          /\ wallet.outgoing_swapcoins[1].edge = 0
          /\ chain.submitted <= wallet.outgoing_swapcoins[1].n
    /\ (pc = At("main", "watch") \/ hist.confirmed >= 1) =>
          /\ chain.submitted >= 1
          /\ chain.submitted = wallet.outgoing_swapcoins[1].n
    /\ pc = At("main", "ifh_broadcast") =>
          /\ chain.submitted = 0
          /\ wallet.saves = 1

\* The watcher of init_first_hop is running on two submitted funding
\* transactions whose swapcoins were saved.
C34_Witness ==
    /\ pc = At("main", "watch")
    /\ loc.watch_ctx = "ifh"
    /\ chain.submitted = 2
    /\ wallet.saves = 1

\* C35: RespContractSigsForRecvrAndSender is sent to this Maker only when the
\* Taker holds exactly tx_count senders_sigs and exactly tx_count
\* receivers_sigs, and the signatures it got from another Maker (the senders
\* signatures of the next Maker unless the Taker is the last peer, the
\* receivers signatures of the previous Maker unless it is the first) were
\* returned in the requested number and all verified; a reply with a wrong
\* count or an invalid signature is never accepted, it fails the request
\* with a Protocol error and nothing is sent in that step.
C35_SigsCompleteBeforeResponse ==
    [][ LET st == ongoing_swap_state
            n == st.swap_params.tx_count
        IN
        /\ (Written /\ sent'.type = "RespContractSigsForRecvrAndSender") =>
              /\ sent'.senders_sigs = n
              /\ sent'.receivers_sigs = n
              /\ st.taker_position # "LastPeer" =>
                    \E r \in hist.sender_sigs :
                       /\ r.edge = loc.maker_index + 1 /\ r.to = loc.next_maker
                       /\ r.requested = n /\ r.returned = n /\ r.all_verify
              /\ st.taker_position # "FirstPeer" =>
                    \E r \in hist.receiver_sigs :
                       /\ r.edge = previous_maker_watchonly_swapcoins(st).edge
                       /\ r.by = st.peer_infos[Len(st.peer_infos) - 1].peer
                       /\ r.requested = n /\ r.returned = n /\ r.all_verify
        /\ \A r \in hist'.sender_sigs \cup hist'.receiver_sigs :
              r.returned = r.requested /\ r.all_verify
        /\ pc \in {At("rss", "read"), At("rsr", "read")} =>
              /\ ~Written
              /\ pc' = At("hop", "resp_send") =>
                    /\ loc'.senders_sigs = n /\ loc'.receivers_sigs = n
                    /\ pc.f = "rss" => \E r \in hist'.sender_sigs :
                                          r.edge = loc.maker_index + 1 /\ r.to = loc.next_maker
                    /\ pc.f = "rsr" => \E r \in hist'.receiver_sigs :
                                          r.edge = RsrCoins.edge
      ]_vars

\* The response of a middle hop was sent: its senders signatures came from
\* the next Maker and its receivers signatures from the previous one, two of
\* each.
C35_Witness ==
    /\ sent.type = "RespContractSigsForRecvrAndSender"
    /\ sent.maker_index = 1
    /\ sent.senders_sigs = 2 /\ sent.receivers_sigs = 2
    /\ ongoing_swap_state.taker_position = "WatchOnly"
    /\ hist.receiver_sigs # {}

\* C36: when the sender-signature request to a candidate next Maker fails,
\* the candidate is added to the bad set (and not to the good set) and the
\* Taker goes back to select another Maker; the Maker it names in a
\* ProofOfFunding is always an untried matching one, so neither bad nor good,
\* and the bad set never shrinks; a candidate enters the good set only in the
\* step that accepted its sender signatures; and when no untried matching
\* Maker is left, nothing is sent and the attempt fails with the
\* no-suitable-maker error.
C36_FailedCandidateMarkedBad ==
    [][ LET st == ongoing_swap_state
            amount == st.swap_params.send_amount
        IN
        /\ (pc.f = "rss" /\ loc.rss_ctx = "hop" /\ pc' = At("hop", "pof_send")) =>
              /\ loc.next_maker \in offerbook'.bad_makers
              /\ loc.next_maker \notin offerbook'.good_makers
              /\ ~Written
        /\ (pc = At("hop", "pof_send") /\ ~taker_is_next_peer(st) /\ Written) =>
              /\ sent'.type = "ProofOfFunding"
              /\ sent'.next_peer \in MatchingUntried(offerbook, amount)
              /\ sent'.next_peer \notin offerbook.bad_makers \cup offerbook.good_makers
              /\ loc'.next_maker = sent'.next_peer
        /\ ( /\ pc = At("hop", "pof_send") /\ ~taker_is_next_peer(st)
             /\ MatchingUntried(offerbook, amount) = {} ) =>
              /\ ~Written
              /\ pc' \in {pc, At("hop", "sleep"), At("hop", "connect"), At("main", "done")}
              /\ pc' = At("main", "done") =>
                    /\ result'.status = "err"
                    /\ result'.err \in
                         {"Protocol: Could not find suitable maker",
                          "Protocol: Timed out of exchange_signatures_and_find_next_maker attempt"}
        /\ offerbook'.good_makers # offerbook.good_makers =>
              /\ pc = At("rss", "read")
              /\ offerbook'.good_makers = offerbook.good_makers \cup {Peer("rss")}
              /\ \E r \in hist'.sender_sigs :
                    r.to = Peer("rss") /\ r.returned = r.requested /\ r.all_verify
        /\ offerbook.bad_makers \subseteq offerbook'.bad_makers
      ]_vars

\* A candidate next Maker of hop 0 failed its sender-signature request and
\* is bad (no Maker was bad before the hop: this Maker is the only good one
\* and comes before the bad ones); the ProofOfFunding in flight names
\* another candidate.
C36_Witness ==
    /\ pc = At("hop", "pof_read")
    /\ sent.type = "ProofOfFunding"
    /\ sent.next_peer # 0
    /\ offerbook.bad_makers # {}
    /\ \E m \in offerbook.bad_makers : m < sent.next_peer
    /\ offerbook.good_makers = {Peer("hop")}
    /\ \A m \in offerbook.bad_makers : m > Peer("hop")

\* C37: in every peer session the first message the Taker sends is
\* TakerHello with protocol_version_min = protocol_version_max = 0, and no
\* other message is sent on the session until the MakerHello was read: a
\* message other than TakerHello is only written by a function whose
\* handshake is over.  When the read gives a message with another tag the
\* attempt fails with Protocol("expected method makerhello"), on EOF with a
\* Network error (on a line that is no message, with the Protocol error of
\* the parser), and that step writes nothing.
C37_HelloFirst ==
    [][ /\ pc.s = "connect" => ~Written
        /\ pc.s = "hello" =>
              /\ Written =>
                    /\ sent'.type = "TakerHello"
                    /\ sent'.to = Peer(pc.f)
                    /\ sent'.protocol_version_min = 0
                    /\ sent'.protocol_version_max = 0
                    /\ pc' = At(pc.f, "hello_rd")
              /\ pc'.f = pc.f => pc'.s \in {"hello", "hello_rd", "connect", "sleep"}
        /\ pc.s = "hello_rd" =>
              /\ ~Written
              /\ pc'.f = pc.f =>
                    pc'.s \in {"hello_rd", Body(pc.f), "connect", "sleep"}
              /\ pc' = At(pc.f, "sleep") =>
                    loc'.attempt_err \in
                       {"Protocol: expected method makerhello", "Network: EOF",
                        "Protocol: json parsing error"}
        /\ (Written /\ sent'.type # "TakerHello") =>
              /\ pc.f \in Frames
              /\ pc.s \notin {"connect", "hello", "hello_rd", "sleep"}
              /\ sent'.to = Peer(pc.f)
      ]_vars

\* A handshake failed on a reply with the wrong tag: the attempt is slept
\* after, with that error, and the TakerHello was the only message of the
\* session.
C37_Witness ==
    /\ pc = At("settle", "sleep")
    /\ loc.attempt_err = "Protocol: expected method makerhello"
    /\ sent = NoMessage
    /\ hist.settled = <<>>

\* C38: within one peer session with this Maker the Taker sends
\* ProofOfFunding at most once, also when a candidate next Maker fails and
\* another one is selected: the number of ProofOfFunding messages written on
\* the open session of send_sigs_init_next_hop_once never exceeds one.
C38_OneProofOfFundingPerSession ==
    hist.proofs_of_funding <= 1

\* C39: in settle_one_coinswap, whenever taker_position is not FirstPeer,
\* outgoing_privkeys is Some when the Taker's reply is built (after the
\* Maker's PrivKeyHandover was read), on every attempt, re-attempts at the
\* same Maker included; the assertion guarding it never fails.
C39_OutgoingPrivkeysPresent ==
    /\ ( /\ pc = At("settle", "hp_read")
         /\ ongoing_swap_state.taker_position # "FirstPeer" )
          => loc.outgoing_privkeys # NoKey
    /\ result # [status |-> "panic",
                 err |-> "assertion failed: outgoing_privkeys.is_some()"]

\* C40: no Maker takes part twice in one round: the Makers recorded in
\* peer_infos at the indices 0..maker_count-1 are pairwise distinct and all
\* marked good, and choose_next_maker never returns a Maker that is already
\* marked good or bad.
C40_MakersDistinct ==
    LET infos == ongoing_swap_state.peer_infos
        k == Min({Len(infos), ongoing_swap_state.swap_params.maker_count})
        next == choose_next_maker(offerbook, SendAmount)
    IN /\ \A i \in 1..k : \A j \in 1..k :
             i # j => infos[i].peer # infos[j].peer
       /\ \A i \in 1..k : infos[i].peer \in offerbook.good_makers
       /\ next # 0 => next \notin offerbook.good_makers \cup offerbook.bad_makers

\* A route of three Makers is complete: three different Makers, followed by
\* the Taker's own entry (which repeats the offer of the last Maker).
C40_Witness ==
    LET infos == ongoing_swap_state.peer_infos
    IN /\ ongoing_swap_state.swap_params.maker_count = 3
       /\ Len(infos) = 4
       /\ Cardinality({ infos[i].peer : i \in 1..3 }) = 3
       /\ infos[4].peer = infos[3].peer

====
